---- MODULE Spec2Model ----
(***************************************************************************)
(* Valuation pipeline of the Real_Estate_AI backend: the Price, Location   *)
(* and Deal agents, the security agent's sanitizer and the orchestrator    *)
(* of app/api/query.py.                                                    *)
(*                                                                         *)
(* Units.  Money is an integer number of LKR.  Scores and confidences are  *)
(* integers in hundredths (0.85 is 85) unless a definition says            *)
(* thousandths.  Ratios are compared by cross-multiplication, which is     *)
(* exact where the Python code compares a correctly rounded float quotient *)
(* of small integers with the literals 0.85 and 1.15.                      *)
(***************************************************************************)
EXTENDS Integers, Sequences, FiniteSets, TLC

VARIABLES
    env,      \* process configuration, fixed at startup
    last,     \* the agent call in progress / just completed ("none" when idle)
    sweep,    \* a caller that lowers asking_price step by step (deal monotonicity)
    pipe,     \* the request being handled by _run_analysis_pipeline
    san,      \* a text on its way through sanitize_input
    api,      \* the request being handled by analyze_property, its user and the stored documents
    store,    \* the users and payments collections, Stripe's sessions
    reqs,     \* analyze_property requests of one user that interleave at their await points
    fb,       \* the feedback collection and the submit_feedback requests in flight
    rng,      \* the state of the process-wide random generator
    bus       \* the AgentBus singleton

vars == <<env, last, sweep, pipe, san, api, store, reqs, fb, rng, bus>>

Min(a, b) == IF a <= b THEN a ELSE b
Max(a, b) == IF a >= b THEN a ELSE b

(***************************************************************************)
(* Bounds of the model (not program constants).                            *)
(***************************************************************************)
MaxAnalyses == 52         \* analyses of one subscription in the purchase model (above the standard limit)
MaxAsking == 26
MaxCompleted == 8         \* analyses answered before the model stops taking requests
MaxEstimated == 20
MaxStep == 3

(***************************************************************************)
(* Process configuration.  apiKey: settings.gemini_api_key is set, so each *)
(* agent holds an LLM client.  oracleDown: every generate_content call     *)
(* raises.  strict: a STRICT_MODE entry in the environment; Settings       *)
(* declares no such field and ignores unknown entries (extra = "ignore"),  *)
(* so no agent ever reads it.                                              *)
(***************************************************************************)
Envs == [apiKey : BOOLEAN, oracleDown : BOOLEAN, strict : BOOLEAN]

\* what one generate_content call can do under configuration e
LlmOutcomes(e) ==
    IF ~e.apiKey THEN {"nomodel"}
    ELSE IF e.oracleDown THEN {"throws"}
    ELSE {"throws", "reply"}

(***************************************************************************)
(* DealAgent.evaluate_deal                                                 *)
(***************************************************************************)
LocationScores == {0, 39, 40, 50, 80, 81, 100}

\* floor(p * x / q) for x >= 0, computed without leaving the 32-bit integers
MulDivFloor(x, p, q) == p * (x \div q) + (p * (x % q)) \div q

\* price_ratio <= pct/100, with price_ratio = asking/estimated if estimated > 0 else 1.0
\* (for integers, asking/estimated <= pct/100 iff asking <= floor(pct*estimated/100))
RatioAtMost(asking, estimated, pct) ==
    IF estimated > 0 THEN asking <= MulDivFloor(estimated, pct, 100) ELSE 100 <= pct

DealVerdictMut_SwapFair(asking, estimated) ==
    IF RatioAtMost(asking, estimated, 115) THEN
        (IF RatioAtMost(asking, estimated, 85) THEN "Fair" ELSE "Good Deal")
    ELSE "Overpriced"

DealVerdictMut_Strict(asking, estimated) ==
    IF /\ RatioAtMost(asking, estimated, 85)
       /\ ~(estimated > 0 /\ (85 * (estimated % 100)) % 100 = 0
             /\ asking = MulDivFloor(estimated, 85, 100))
    THEN "Good Deal"
    ELSE IF RatioAtMost(asking, estimated, 115) THEN "Fair"
    ELSE "Overpriced"

DealVerdict(asking, estimated) ==
    IF RatioAtMost(asking, estimated, 85) THEN "Good Deal"
    ELSE IF RatioAtMost(asking, estimated, 115) THEN "Fair"
    ELSE "Overpriced"

DealBaseConfidence(verdict) == IF verdict = "Fair" THEN 70 ELSE 80

DealConfidence(verdict, loc) ==
    LET base == DealBaseConfidence(verdict)
        adj  == IF loc > 80 THEN base + 10
                ELSE IF loc < 40 THEN base - 10
                ELSE base
    IN Max(10, Min(95, adj))

EvaluateDeal(asking, estimated, loc) ==
    LET v == DealVerdict(asking, estimated)
    IN [verdict |-> v, why |-> v, confidence |-> DealConfidence(v, loc)]

NoCall == [stage |-> "none"]

CallEvaluateDeal ==
    /\ last.stage = "none"
    /\ \E asking \in 0..MaxAsking, estimated \in -1..MaxEstimated, loc \in LocationScores :
         last' = [stage |-> "evaluate_deal", asking |-> asking, estimated |-> estimated,
                  loc |-> loc, res |-> EvaluateDeal(asking, estimated, loc)]
    /\ UNCHANGED <<env, sweep, pipe, san, api, store, reqs, fb, rng, bus>>

Return ==
    /\ last.stage # "none"
    /\ last.stage = "get_nearby_amenities" => last.pc = "returned"
    /\ last' = NoCall
    /\ UNCHANGED <<env, sweep, pipe, san, api, store, reqs, fb, rng, bus>>

(***************************************************************************)
(* PriceAgent._calculate_confidence                                        *)
(***************************************************************************)
RequiredFeatures == {"area", "beds", "baths", "year_built", "city"}
BonusFeatures == {"district", "property_type", "land_size"}
ConfidenceFeatures == RequiredFeatures \cup BonusFeatures

\* a key of the features dict is absent, present with value None, or present with a value
FeatureStatus == {"absent", "null", "present"}

\* sum(1 for f in names if f in features and features[f] is not None)
CountPresent(st, names) == Cardinality({f \in names : st[f] = "present"})

CalculateConfidenceMut_NoCap(st) ==
    (50 + (CountPresent(st, RequiredFeatures) * 40) \div Cardinality(RequiredFeatures))
      + 2 * CountPresent(st, BonusFeatures)

CalculateConfidenceMut_Constant(st) == 95

\* hundredths: 0.5 + (present/5)*0.4, plus min(0.1, bonus*0.02), capped at 0.95
CalculateConfidence(st) ==
    LET base  == 50 + (CountPresent(st, RequiredFeatures) * 40) \div Cardinality(RequiredFeatures)
        bonus == Min(10, 2 * CountPresent(st, BonusFeatures))
    IN Min(95, base + bonus)

CallCalculateConfidence ==
    /\ last.stage = "none"
    /\ \E st \in [ConfidenceFeatures -> FeatureStatus] :
         last' = [stage |-> "calculate_confidence", st |-> st,
                  res |-> CalculateConfidence(st)]
    /\ UNCHANGED <<env, sweep, pipe, san, api, store, reqs, fb, rng, bus>>

(***************************************************************************)
(* PriceAgent.estimate_price and its two paths.                            *)
(*                                                                         *)
(* A feature set is the dict handed to estimate_price.  Numeric fields it  *)
(* carries are never None and area is positive, which is what              *)
(* SecurityAgent.validate_query_features lets through.  has is the set of  *)
(* keys present; the value fields are meaningful for the keys in has.      *)
(* area is in square feet, lat and lon are a row of Coordinates.           *)
(***************************************************************************)
PriceFeatureKeys == ConfidenceFeatures \cup {"lat", "lon"}

\* lat and lon in units of 0.0001 degree.  seed is int((lat + lon) * 10000) % 1000
\* and numComps is random.randint(3, 5) right after random.seed(seed), both as
\* CPython evaluates them (the float product truncates 867883 to 867882 in row 1).
Coordinates ==
    << [lat |-> 69271, lon |-> 798612, seed |-> 882, numComps |-> 3],
       [lat |-> 69100, lon |-> 798500, seed |-> 599, numComps |-> 5],
       [lat |-> 69000, lon |-> 799000, seed |-> 0,   numComps |-> 4],
       [lat |-> 70000, lon |-> 800000, seed |-> 0,   numComps |-> 4],
       [lat |-> 72906, lon |-> 806337, seed |-> 243, numComps |-> 5],
       [lat |-> 60535, lon |-> 802210, seed |-> 745, numComps |-> 3],
       [lat |-> 60000, lon |-> 800000, seed |-> 0,   numComps |-> 4] >>

AreaValues == {1500}
CityValues == {"Colombo", "Jaffna"}
PropertyTypeValues == {"House", "Apartment"}

FeatureSets ==
    { f \in [has : SUBSET PriceFeatureKeys, area : AreaValues \cup {0},
             city : CityValues \cup {""}, property_type : PropertyTypeValues \cup {""},
             coord : 1..Len(Coordinates)] :
        /\ ("area" \in f.has) <=> (f.area # 0)
        /\ ("city" \in f.has) <=> (f.city # "")
        /\ ("property_type" \in f.has) <=> (f.property_type # "")
        /\ ({"lat", "lon"} \cap f.has = {}) => f.coord = 1 }

\* the status function _calculate_confidence sees for a feature set
StatusOf(f) == [k \in ConfidenceFeatures |-> IF k \in f.has THEN "present" ELSE "absent"]

\* lat is not None and lon is not None
HasCoordinates(f) == {"lat", "lon"} \subseteq f.has

\* features.get('area', 1000)
AreaOf(f) == IF "area" \in f.has THEN f.area ELSE 1000

\* (low + high) / 2 of base_estimates[city][property_type], LKR per square foot
AvgPricePerSqft(f) ==
    LET house == f.property_type # "Apartment"
    IN IF f.city = "Colombo" THEN (IF house THEN 45000 ELSE 35000)
       ELSE IF f.city = "Kandy" THEN (IF house THEN 30000 ELSE 26500)
       ELSE IF f.city = "Galle" THEN (IF house THEN 26500 ELSE 22500)
       ELSE (IF house THEN 22500 ELSE 18500)

\* (lat + lon) % 1.0, in units of 0.0001
FracSum(coord) == (Coordinates[coord].lat + Coordinates[coord].lon) % 10000

\* no location-based variance
LocationFactor50kMut_NoVariance(f) == 50000

\* location_factor = 1.0 + (((lat + lon) % 1.0) - 0.5) * 0.2, times 50000
LocationFactor50k(f) ==
    IF HasCoordinates(f)
    THEN 45000 + FracSum(f.coord)
    ELSE 50000

\* area * avg_price_per_sqft * location_factor in LKR; exact for areas that are
\* multiples of 100 sq ft (every average is a multiple of 500 LKR)
HeuristicPrice(f) == (AreaOf(f) \div 100) * (AvgPricePerSqft(f) \div 500) * LocationFactor50k(f)

\* _generate_comps: always range(3)
GenerateComps == [i \in 1..3 |-> [id |-> i, origin |-> "generated"]]

\* _get_comparable_properties: random.randint(3, 5) entries after seeding with the location
GetComparableProperties(f) ==
    [i \in 1..Coordinates[f.coord].numComps |-> [id |-> i, origin |-> "retrieved"]]

FallbackEstimatePriceMut_FixedConfidence(f) ==
    [path |-> "fallback", estimated_price |-> HeuristicPrice(f),
     confidence |-> 60, comps |-> GenerateComps, error |-> FALSE]

FallbackEstimatePrice(f) ==
    [path |-> "fallback", estimated_price |-> HeuristicPrice(f),
     confidence |-> CalculateConfidence(StatusOf(f)), comps |-> GenerateComps,
     error |-> FALSE]

(***************************************************************************)
(* The LLM's reply text, by what _parse_ai_response can tell apart.        *)
(*   json    : the first brace span decodes; priceSt/confSt say whether    *)
(*             the key is missing, converts with float() ("num") or makes  *)
(*             float() raise ("bad")                                       *)
(*   badjson : a brace span is found but json.loads raises                 *)
(*   lkrtext : no brace span, but "LKR <digits>" occurs                    *)
(*   plain   : neither                                                     *)
(***************************************************************************)
NoReply == [kind |-> "none", priceSt |-> "missing", price |-> 0, confSt |-> "missing", conf |-> 0]

PriceReplies ==
    { [kind |-> "json", priceSt |-> "num", price |-> 20000000, confSt |-> "num", conf |-> 85],
      [kind |-> "json", priceSt |-> "num", price |-> 20000000, confSt |-> "num", conf |-> 150],
      [kind |-> "json", priceSt |-> "num", price |-> 20000000, confSt |-> "num", conf |-> 5],
      [kind |-> "json", priceSt |-> "missing", price |-> 0, confSt |-> "missing", conf |-> 0],
      [kind |-> "json", priceSt |-> "bad", price |-> 0, confSt |-> "num", conf |-> 85],
      [kind |-> "json", priceSt |-> "num", price |-> 20000000, confSt |-> "bad", conf |-> 0],
      [kind |-> "badjson", priceSt |-> "missing", price |-> 0, confSt |-> "missing", conf |-> 0],
      [kind |-> "lkrtext", priceSt |-> "num", price |-> 12000000, confSt |-> "missing", conf |-> 0],
      [kind |-> "plain", priceSt |-> "missing", price |-> 0, confSt |-> "missing", conf |-> 0] }

\* the "Ultimate fallback" of _parse_ai_response
DefaultParsedPrice == 15000000
DefaultParsedConfidence == 30

ParseDefault == [estimated_price |-> DefaultParsedPrice, confidence |-> DefaultParsedConfidence,
                 parsed |-> FALSE]

ParseAiResponse(r) ==
    IF r.kind = "json" THEN
        IF r.priceSt = "bad" \/ r.confSt = "bad" THEN ParseDefault
        ELSE [estimated_price |-> IF r.priceSt = "num" THEN r.price ELSE 0,
              confidence |-> Max(10, Min(95, IF r.confSt = "num" THEN r.conf ELSE 50)),
              parsed |-> TRUE]
    ELSE IF r.kind = "lkrtext" THEN
        IF r.priceSt = "num"
        THEN [estimated_price |-> r.price, confidence |-> 60, parsed |-> TRUE]
        ELSE ParseDefault
    ELSE ParseDefault

\* the except clause re-raising instead of falling back
AiEstimatePriceMut_NoCatch(f, llm, r) ==
    IF llm = "throws"
    THEN [path |-> "exception", estimated_price |-> 0, confidence |-> 0, comps |-> <<>>,
          error |-> TRUE]
    ELSE LET ai == ParseAiResponse(r)
         IN [path |-> "llm", estimated_price |-> ai.estimated_price,
             confidence |-> ai.confidence,
             comps |-> IF HasCoordinates(f) THEN GetComparableProperties(f) ELSE GenerateComps,
             error |-> FALSE]

\* an unparsed reply handled like a failed call
AiEstimatePriceMut_ParseFallback(f, llm, r) ==
    IF llm = "throws" \/ ~ParseAiResponse(r).parsed THEN FallbackEstimatePrice(f)
    ELSE LET ai == ParseAiResponse(r)
         IN [path |-> "llm", estimated_price |-> ai.estimated_price,
             confidence |-> ai.confidence,
             comps |-> IF HasCoordinates(f) THEN GetComparableProperties(f) ELSE GenerateComps,
             error |-> FALSE]

AiEstimatePrice(f, llm, r) ==
    IF llm = "throws" THEN FallbackEstimatePrice(f)
    ELSE LET ai == ParseAiResponse(r)
         IN [path |-> "llm", estimated_price |-> ai.estimated_price,
             confidence |-> ai.confidence,
             comps |-> IF HasCoordinates(f) THEN GetComparableProperties(f) ELSE GenerateComps,
             error |-> FALSE]

\* a strict mode that refuses to estimate without a client
EstimatePriceMut_StrictError(f, llm, r) ==
    IF llm = "nomodel"
    THEN (IF env.strict
          THEN [path |-> "error", estimated_price |-> 0, confidence |-> 10, comps |-> <<>>,
                error |-> TRUE]
          ELSE FallbackEstimatePrice(f))
    ELSE AiEstimatePrice(f, llm, r)

\* llm is "nomodel" when self.model is None
EstimatePrice(f, llm, r) ==
    IF llm = "nomodel" THEN FallbackEstimatePrice(f) ELSE AiEstimatePrice(f, llm, r)

CallEstimatePrice ==
    /\ last.stage = "none"
    /\ \E f \in FeatureSets, llm \in LlmOutcomes(env) :
         \E r \in (IF llm = "reply" THEN PriceReplies ELSE {NoReply}) :
            last' = [stage |-> "estimate_price", features |-> f, llm |-> llm, reply |-> r,
                     res |-> EstimatePrice(f, llm, r)]
    /\ UNCHANGED <<env, sweep, pipe, san, api, store, reqs, fb, rng, bus>>

(***************************************************************************)
(* LocationAgent.analyze_location (it never consults the LLM).             *)
(* coord is a row of Coordinates, or 0 when lat or lon is None; city and   *)
(* district are "" when None.  jitter is random.uniform(-0.05, 0.05).      *)
(***************************************************************************)
LocationCities == {"", "Colombo", "Kandy", "Galle", "Jaffna", "Monaragala", "Elsewhere"}
LocationDistricts == {"", "Colombo 1", "Colombo 7", "Colombo 15", "Peradeniya", "Galle Fort", "Elsewhere"}
Jitters == {-5, -2, 0, 3, 5}

CityScore(city) ==
    IF city = "Colombo" THEN 95
    ELSE IF city = "Kandy" THEN 90
    ELSE IF city = "Galle" THEN 85
    ELSE IF city = "Jaffna" THEN 80
    ELSE IF city = "Monaragala" THEN 65
    ELSE 50

DistrictScore(city, district, score) ==
    IF city = "Colombo" /\ district = "Colombo 1" THEN 98
    ELSE IF city = "Colombo" /\ district = "Colombo 7" THEN 97
    ELSE IF city = "Colombo" /\ district = "Colombo 15" THEN 85
    ELSE IF city = "Kandy" /\ district = "Peradeniya" THEN 92
    ELSE IF city = "Galle" /\ district = "Galle Fort" THEN 95
    ELSE score

Abs(x) == IF x < 0 THEN -x ELSE x

\* math.sqrt((lat - clat)**2 + (lon - clon)**2) < r, in units of 0.0001 degree
Within(coord, clat, clon, r) ==
    LET dlat == Abs(Coordinates[coord].lat - clat)
        dlon == Abs(Coordinates[coord].lon - clon)
    IN dlat < r /\ dlon < r /\ dlat * dlat + dlon * dlon < r * r

CoordinateBonus(coord) ==
    IF coord = 0 THEN 0
    ELSE (IF Within(coord, 69271, 798612, 1000) THEN 5
          ELSE IF Within(coord, 69271, 798612, 2000) THEN 3 ELSE 0)
         + (IF Within(coord, 72906, 806337, 1000) THEN 3 ELSE 0)
         + (IF Within(coord, 60535, 802210, 1000) THEN 2 ELSE 0)

CalculateLocationScoreMut_NoClamp(coord, city, district, jitter) ==
    DistrictScore(city, district, CityScore(city)) + CoordinateBonus(coord) + jitter

CalculateLocationScore(coord, city, district, jitter) ==
    LET raw == DistrictScore(city, district, CityScore(city)) + CoordinateBonus(coord) + jitter
    IN Max(0, Min(100, raw))

\* len(bullets): 8 per listed city, 4 generic, 4 per listed Colombo district, 1 for coordinates
LocationBulletCount(coord, city, district) ==
    (IF city = "" THEN 0
     ELSE IF city \in {"Colombo", "Kandy", "Galle", "Jaffna", "Negombo", "Matara",
                        "Anuradhapura"} THEN 8 ELSE 4)
    + (IF city = "Colombo" /\ district \in {"Colombo 1", "Colombo 3", "Colombo 7", "Colombo 5"}
       THEN 4 ELSE 0)
    + (IF coord # 0 THEN 1 ELSE 0)

LocationSummaryBand(score) ==
    IF score >= 90 THEN "Excellent"
    ELSE IF score >= 80 THEN "Very good"
    ELSE IF score >= 70 THEN "Good"
    ELSE IF score >= 60 THEN "Fair"
    ELSE "low score"

\* len(provenance)
LocationProvenanceCount(coord, city, district) ==
    (IF city # "" THEN 1 ELSE 0) + (IF district # "" THEN 1 ELSE 0)
    + (IF coord # 0 THEN 2 ELSE 0) + 1

AnalyzeLocation(coord, city, district, jitter) ==
    LET s == CalculateLocationScore(coord, city, district, jitter)
    IN [score |-> s, bullets |-> LocationBulletCount(coord, city, district),
        summary |-> LocationSummaryBand(s),
        provenance |-> LocationProvenanceCount(coord, city, district),
        error |-> FALSE]

CallAnalyzeLocation ==
    /\ last.stage = "none"
    /\ \E coord \in 0..Len(Coordinates), city \in LocationCities,
          district \in LocationDistricts, jitter \in Jitters :
         last' = [stage |-> "analyze_location", coord |-> coord, city |-> city,
                  district |-> district, jitter |-> jitter,
                  res |-> AnalyzeLocation(coord, city, district, jitter)]
    /\ UNCHANGED <<env, sweep, pipe, san, api, store, reqs, fb, rng, bus>>

(***************************************************************************)
(* LocationAgent._compute_risk_from_nearby and llm_analyze_location_risk.  *)
(* nearby maps a hazard category to the set of distance_km values of its   *)
(* items, in metres.                                                       *)
(***************************************************************************)
NearbySets ==
    [roads : {{}, {150}, {400}, {800}, {400, 800}},
     waterways : {{}, {400}, {800}, {1500}},
     water_bodies : {{}, {400}},
     railways : {{}, {150}, {400}, {800}},
     industrial_areas : {{}, {800}, {1500}, {2500}}]

NoDistance == 999999

\* min(..., default=None); NoDistance stands for None
NearestDistance(items) ==
    IF items = {} THEN NoDistance ELSE CHOOSE d \in items : \A e \in items : d <= e

\* the severity a category contributes (0: no factor), from its two distance bands
BandSeverity(d, near, far) ==
    IF d = NoDistance THEN 0 ELSE IF d < near THEN 4 ELSE IF d < far THEN 3 ELSE 0

\* severities of the factors, in the order highway, water, railway, industrial
HazardSeverities(nearby) ==
    LET raw == << BandSeverity(NearestDistance(nearby.roads), 200, 500),
                  BandSeverity(Min(NearestDistance(nearby.waterways),
                                   NearestDistance(nearby.water_bodies)), 500, 1000),
                  BandSeverity(NearestDistance(nearby.railways), 300, 600),
                  BandSeverity(NearestDistance(nearby.industrial_areas), 1000, 2000) >>
    IN SelectSeq(raw, LAMBDA s : s # 0)

RECURSIVE SumSeq(_)
SumSeq(s) == IF s = <<>> THEN 0 ELSE Head(s) + SumSeq(Tail(s))

\* score_flags holds 3 for a severity-4 factor and 2 for a severity-3 factor
ComputeRiskFromNearby(nearby) ==
    LET sev   == HazardSeverities(nearby)
        total == SumSeq([i \in 1..Len(sev) |-> sev[i] - 1])
        level == IF (\E i \in 1..Len(sev) : sev[i] >= 4) \/ total >= 7 THEN "High"
                 ELSE IF (\E i \in 1..Len(sev) : sev[i] >= 3) \/ total >= 4 THEN "Medium"
                 ELSE "Low"
    IN [level |-> level, factors |-> IF sev = <<>> THEN <<1>> ELSE sev, source |-> "heuristic"]

\* The LLM's reply by what llm_analyze_location_risk can tell apart: text that does
\* not decode ("nonjson"), JSON that is not an object ("nondict"), or an object
\* with its level ("" when missing or empty) and its factors' severities.
NoRiskReply == [kind |-> "none", level |-> "", factors |-> <<>>]

RiskReplies ==
    {[kind |-> "nonjson", level |-> "", factors |-> <<>>],
     [kind |-> "nondict", level |-> "", factors |-> <<>>]}
    \cup [kind : {"dict"}, level : {"", "Low", "Severe"}, factors : {<<>>, <<3>>, <<9>>}]

LlmAnalyzeLocationRisk(nearby, llm, r) ==
    LET heuristic == ComputeRiskFromNearby(nearby)
    IN IF llm = "nomodel" \/ llm = "throws" THEN heuristic
       ELSE IF r.kind # "dict" THEN heuristic
       ELSE [level |-> IF r.level = "" THEN "Medium" ELSE r.level,
             factors |-> IF r.factors = <<>> THEN heuristic.factors ELSE r.factors,
             source |-> "llm"]

CallLlmAnalyzeLocationRisk ==
    /\ last.stage = "none"
    /\ \E nearby \in NearbySets, llm \in LlmOutcomes(env) :
         \E r \in (IF llm = "reply" THEN RiskReplies ELSE {NoRiskReply}) :
            last' = [stage |-> "llm_analyze_location_risk", nearby |-> nearby, llm |-> llm,
                     reply |-> r, res |-> LlmAnalyzeLocationRisk(nearby, llm, r)]
    /\ UNCHANGED <<env, sweep, pipe, san, api, store, reqs, fb, rng, bus>>

(***************************************************************************)
(* DealAgent's LLM helpers.                                                *)
(***************************************************************************)
\* analyze_land_details: the fixed fallback object, the decoded JSON value, or the
\* reply text wrapped with a parsing_error note
AnalyzeLandDetails(llm, replyKind) ==
    IF llm = "nomodel" \/ llm = "throws" THEN "fallback"
    ELSE IF replyKind = "json" THEN "decoded"
    ELSE "text_with_parsing_error"

CallAnalyzeLandDetails ==
    /\ last.stage = "none"
    /\ \E llm \in LlmOutcomes(env) :
         \E k \in (IF llm = "reply" THEN {"json", "text"} ELSE {"none"}) :
            last' = [stage |-> "analyze_land_details", llm |-> llm, reply |-> k,
                     res |-> AnalyzeLandDetails(llm, k)]
    /\ UNCHANGED <<env, sweep, pipe, san, api, store, reqs, fb, rng, bus>>

\* llm_explain: response.text, or None
LlmExplain(llm) == IF llm = "reply" THEN "text" ELSE "None"

CallLlmExplain ==
    /\ last.stage = "none"
    /\ \E llm \in LlmOutcomes(env) :
         last' = [stage |-> "llm_explain", llm |-> llm, res |-> LlmExplain(llm)]
    /\ UNCHANGED <<env, sweep, pipe, san, api, store, reqs, fb, rng, bus>>

(***************************************************************************)
(* llm_estimate_market_value.  The reply is text that does not decode      *)
(* ("nonjson"), JSON that is not an object ("nondict"), or an object whose *)
(* estimated_price is missing, a number ("num"), a string ("str") or null, *)
(* and which has a price_per_sqft key or not.                              *)
(***************************************************************************)
NoMarketReply == [kind |-> "none", priceSt |-> "missing", price |-> 0, ppsf |-> FALSE, prov |-> 0]

MarketReplies ==
    {[kind |-> "nonjson", priceSt |-> "missing", price |-> 0, ppsf |-> FALSE, prov |-> 0],
     [kind |-> "nondict", priceSt |-> "missing", price |-> 0, ppsf |-> FALSE, prov |-> 0]}
    \cup {r \in [kind : {"dict"}, priceSt : {"missing", "num", "str", "null"},
                 price : {0, 20000000, 90000000}, ppsf : BOOLEAN, prov : {0, 1}] :
            (r.priceSt # "num") => (r.price = 0 /\ r.prov = 0)}

NoMarketValue == [some |-> FALSE, priceSt |-> "missing", price |-> 0, provenance |-> 0]

\* None, or the decoded object; dividing a str/null estimated_price by the area
\* raises inside the try and gives None
LlmEstimateMarketValue(hasArea, llm, r) ==
    IF llm # "reply" \/ r.kind # "dict" \/ r.priceSt = "missing" THEN NoMarketValue
    ELSE IF ~r.ppsf /\ hasArea /\ r.priceSt # "num" THEN NoMarketValue
    ELSE [some |-> TRUE, priceSt |-> r.priceSt, price |-> r.price, provenance |-> r.prov]

CallLlmEstimateMarketValue ==
    /\ last.stage = "none"
    /\ \E hasArea \in BOOLEAN, llm \in LlmOutcomes(env) :
         \E r \in (IF llm = "reply" THEN MarketReplies ELSE {NoMarketReply}) :
            last' = [stage |-> "llm_estimate_market_value", hasArea |-> hasArea, llm |-> llm,
                     reply |-> r, res |-> LlmEstimateMarketValue(hasArea, llm, r)]
    /\ UNCHANGED <<env, sweep, pipe, san, api, store, reqs, fb, rng, bus>>

(***************************************************************************)
(* A caller that fixes estimated_price and location_score and lowers the   *)
(* asking price step by step, calling evaluate_deal at every step.         *)
(***************************************************************************)
NoSweep == [active |-> FALSE, estimated |-> 0, loc |-> 0, asking |-> 0,
            verdict |-> "none", sawOver |-> FALSE, sawFairRatio |-> FALSE,
            sawFairVerdict |-> FALSE]

InFairBand(asking, estimated) ==
    /\ estimated > 0
    /\ asking * 100 > 85 * estimated
    /\ asking * 100 <= 115 * estimated

SweepStart ==
    /\ ~sweep.active
    /\ \E estimated \in 1..MaxEstimated, loc \in LocationScores, asking \in 1..MaxAsking :
         /\ asking * 100 > 115 * estimated
         /\ sweep' = [active |-> TRUE, estimated |-> estimated, loc |-> loc,
                      asking |-> asking,
                      verdict |-> EvaluateDeal(asking, estimated, loc).verdict,
                      sawOver |-> EvaluateDeal(asking, estimated, loc).verdict = "Overpriced",
                      sawFairRatio |-> FALSE, sawFairVerdict |-> FALSE]
    /\ UNCHANGED <<env, last, pipe, san, api, store, reqs, fb, rng, bus>>

SweepStep ==
    /\ sweep.active
    /\ \E d \in 1..MaxStep :
         /\ sweep.asking - d >= 0
         /\ LET a == sweep.asking - d
                v == EvaluateDeal(a, sweep.estimated, sweep.loc).verdict
            IN sweep' = [sweep EXCEPT
                           !.asking = a,
                           !.verdict = v,
                           !.sawOver = @ \/ v = "Overpriced",
                           !.sawFairRatio = @ \/ InFairBand(a, sweep.estimated),
                           !.sawFairVerdict = @ \/ v = "Fair"]
    /\ UNCHANGED <<env, last, pipe, san, api, store, reqs, fb, rng, bus>>

SweepEnd ==
    /\ sweep.active
    /\ sweep.asking * 100 < 85 * sweep.estimated
    /\ sweep' = NoSweep
    /\ UNCHANGED <<env, last, pipe, san, api, store, reqs, fb, rng, bus>>

(***************************************************************************)
(* _run_analysis_pipeline (app/api/query.py): one request at a time, one   *)
(* action per stage of the sequence.  Its features are the sanitized ones: *)
(* city and asking_price always, district/property_type/land_size never.   *)
(* Money is in whole LKR (the code rounds to 2 decimals).                  *)
(***************************************************************************)
PipelineFeatureSets ==
    { f \in FeatureSets :
        /\ "city" \in f.has
        /\ f.city = "Colombo"
        /\ f.has \subseteq {"city", "area", "lat", "lon", "beds", "baths", "year_built"}
        /\ ({"lat", "lon"} \subseteq f.has \/ {"lat", "lon"} \cap f.has = {})
        /\ ({"beds", "baths", "year_built"} \subseteq f.has
              \/ {"beds", "baths", "year_built"} \cap f.has = {})
        /\ f.coord <= 2 }

AskingPrices == {30000000, 70000000}

\* tags and the sum of their adjustments in thousandths (sea view +0.06,
\* needs renovation -0.07); an empty list leaves tag_adjustment_factor at 1.0
TagAdjustments == {0, 60, -70}

PipelinePriceReplies ==
    { r \in PriceReplies :
        r.kind \in {"badjson", "lkrtext"} \/ (r.kind = "json" /\ r.conf \in {85, 5}) }

PipelineNearby ==
    { n \in NearbySets :
        \/ n = [roads |-> {}, waterways |-> {}, water_bodies |-> {}, railways |-> {},
                industrial_areas |-> {}]
        \/ n = [roads |-> {150}, waterways |-> {}, water_bodies |-> {}, railways |-> {},
                industrial_areas |-> {}] }

\* get_nearby_amenities is skipped (nearby = {}) unless lat and lon are both truthy
NoNearby == [roads |-> {}, waterways |-> {}, water_bodies |-> {}, railways |-> {},
             industrial_areas |-> {}]

PipelineRiskReplies ==
    { r \in RiskReplies : r.kind = "nonjson" \/ (r.kind = "dict" /\ r.level = "Low" /\ r.factors = <<3>>) }

NoResult == [none |-> TRUE]

\* the calls made inside the outer try only, and those made inside the inner try
OuterCalls == {"estimate_price", "llm_estimate_market_value", "analyze_location",
               "evaluate_deal", "analyze_land_details", "llm_explain"}
InnerCalls == {"get_nearby_amenities", "llm_analyze_location_risk"}

\* the call, if any, that lets an exception out (the agents catch their own; what
\* is left is a MemoryError or RecursionError, or a replaced collaborator)
FaultPoints == {"none"} \cup OuterCalls \cup InnerCalls

IdlePipe == [pc |-> "idle", features |-> CHOOSE f \in PipelineFeatureSets : f.has = {"city"},
             asking |-> 0, tagAdj |-> 0, faultAt |-> "none", confidence |-> 0, estimated_price |-> 0,
             heuristic_price |-> 0, llm_returned |-> FALSE, llm_price |-> 0,
             dealArgs |-> <<0, 0, 0>>,
             price_per_sqft |-> 0, provenance |-> 0, location |-> 0, analyze_location |-> "None",
             deal |-> "none", dealConfidence |-> 0, land |-> "none", calls |-> <<>>,
             raised |-> FALSE, outcome |-> "none", result |-> NoResult]

\* the except clause of _run_analysis_pipeline
DegradedResultMut_ZeroPrice(asking) ==
    [estimated_price |-> 0, location_score |-> 50, deal_verdict |-> "Fair",
     why |-> "Analysis incomplete due to system error", confidence |-> 30,
     provenance |-> 0, land_details |-> "unavailable", error |-> TRUE]

DegradedResult(asking) ==
    [estimated_price |-> asking, location_score |-> 50, deal_verdict |-> "Fair",
     why |-> "Analysis incomplete due to system error", confidence |-> 30,
     provenance |-> 0, land_details |-> "unavailable", error |-> TRUE]

\* the weights of the blend exchanged
BlendPriceMut_SwappedWeights(conf, h, llm) ==
    (100 - conf) * (h \div 100) + conf * (llm \div 100)
      + ((100 - conf) * (h % 100) + conf * (llm % 100)) \div 100

\* floor of (conf*h + (100-conf)*llm)/100
BlendPrice(conf, h, llm) ==
    conf * (h \div 100) + (100 - conf) * (llm \div 100)
      + (conf * (h % 100) + (100 - conf) * (llm % 100)) \div 100

\* except Exception at the top level: the degraded result is returned
CatchAtTopLevel(p, call) ==
    [p EXCEPT !.pc = "done", !.calls = Append(@, call), !.raised = TRUE,
              !.outcome = "returned", !.result = DegradedResult(p.asking)]

PipelineStart ==
    /\ pipe.pc = "idle"
    /\ \E f \in PipelineFeatureSets, asking \in AskingPrices, adj \in TagAdjustments,
          fault \in FaultPoints :
         pipe' = [IdlePipe EXCEPT !.pc = "price", !.features = f, !.asking = asking,
                                  !.tagAdj = adj, !.faultAt = fault]
    /\ UNCHANGED <<env, last, sweep, san, api, store, reqs, fb, rng, bus>>

\* 1. price estimation and the tag adjustment
PipelinePrice ==
    /\ pipe.pc = "price"
    /\ pipe.faultAt # "estimate_price"
    /\ \E llm \in LlmOutcomes(env) :
         \E r \in (IF llm = "reply" THEN PipelinePriceReplies ELSE {NoReply}) :
            LET pr  == EstimatePrice(pipe.features, llm, r)
                adj == pipe.tagAdj
                h   == IF adj # 0 THEN MulDivFloor(pr.estimated_price, 1000 + adj, 1000)
                       ELSE pr.estimated_price
            IN pipe' = [pipe EXCEPT
                          !.pc = "blend",
                          !.confidence = pr.confidence,
                          !.estimated_price = h,
                          !.heuristic_price = h,
                          !.price_per_sqft = pr.estimated_price \div AreaOf(pipe.features),
                          !.provenance = IF adj # 0 THEN 1 ELSE 0,
                          !.calls = Append(@, "estimate_price")]
    /\ UNCHANGED <<env, last, sweep, san, api, store, reqs, fb, rng, bus>>

\* 1b. the secondary estimate; comparing a str or null estimated_price with 0 raises,
\* which the top-level except turns into the degraded result
PipelineBlend ==
    /\ pipe.pc = "blend"
    /\ pipe.faultAt # "llm_estimate_market_value"
    /\ \E llm \in LlmOutcomes(env) :
         \E r \in (IF llm = "reply" THEN MarketReplies ELSE {NoMarketReply}) :
            LET mv == LlmEstimateMarketValue("area" \in pipe.features.has, llm, r)
                calls == Append(pipe.calls, "llm_estimate_market_value")
            IN IF mv.some /\ mv.priceSt # "num"
               THEN pipe' = CatchAtTopLevel(pipe, "llm_estimate_market_value")
               ELSE IF mv.some /\ mv.price > 0
               THEN LET b == BlendPrice(pipe.confidence, pipe.estimated_price, mv.price)
                    IN pipe' = [pipe EXCEPT
                                  !.pc = "location", !.calls = calls,
                                  !.llm_returned = TRUE, !.llm_price = mv.price,
                                  !.estimated_price = b,
                                  !.provenance = @ + mv.provenance,
                                  !.price_per_sqft = IF "area" \in pipe.features.has
                                                     THEN b \div pipe.features.area ELSE @]
               ELSE pipe' = [pipe EXCEPT !.pc = "location", !.calls = calls,
                                         !.llm_returned = mv.some, !.llm_price = mv.price]
    /\ UNCHANGED <<env, last, sweep, san, api, store, reqs, fb, rng, bus>>

\* 2. location analysis, then nearby amenities and risk for analyze_location
PipelineLocation ==
    /\ pipe.pc = "location"
    /\ pipe.faultAt # "analyze_location"
    /\ \E jitter \in {-5, 0, 5}, llm \in LlmOutcomes(env),
          nearby \in (IF HasCoordinates(pipe.features) THEN PipelineNearby ELSE {NoNearby}) :
         \E r \in (IF llm = "reply" THEN PipelineRiskReplies ELSE {NoRiskReply}) :
            LET coord == IF HasCoordinates(pipe.features) THEN pipe.features.coord ELSE 0
                loc   == AnalyzeLocation(coord, pipe.features.city, "", jitter)
                risk  == LlmAnalyzeLocationRisk(nearby, llm, r)
            IN pipe' = [pipe EXCEPT
                          !.pc = "deal",
                          !.location = loc.score,
                          !.provenance = @ + loc.provenance,
                          !.analyze_location =
                              IF HasCoordinates(pipe.features)
                                   /\ pipe.faultAt = "get_nearby_amenities" THEN "None"
                              ELSE IF pipe.faultAt = "llm_analyze_location_risk" THEN "None"
                              ELSE risk.level,
                          !.calls = pipe.calls \o
                                      (IF ~HasCoordinates(pipe.features)
                                       THEN <<"analyze_location", "llm_analyze_location_risk">>
                                       ELSE IF pipe.faultAt = "get_nearby_amenities"
                                       THEN <<"analyze_location", "get_nearby_amenities">>
                                       ELSE <<"analyze_location", "get_nearby_amenities",
                                              "llm_analyze_location_risk">>)]
    /\ UNCHANGED <<env, last, sweep, san, api, store, reqs, fb, rng, bus>>

\* the arguments of evaluate_deal: asking_price, estimated_price, location_score
DealArgumentsMut_Unblended(p) == <<p.asking, p.heuristic_price, p.location>>

DealArguments(p) == <<p.asking, p.estimated_price, p.location>>

\* 3. deal evaluation
PipelineDeal ==
    /\ pipe.pc = "deal"
    /\ pipe.faultAt # "evaluate_deal"
    /\ LET args == DealArguments(pipe)
           d == EvaluateDeal(args[1], args[2], args[3])
       IN pipe' = [pipe EXCEPT !.pc = "land", !.deal = d.verdict, !.dealArgs = args,
                               !.dealConfidence = d.confidence,
                               !.calls = Append(@, "evaluate_deal")]
    /\ UNCHANGED <<env, last, sweep, san, api, store, reqs, fb, rng, bus>>

\* 4. land details
PipelineLand ==
    /\ pipe.pc = "land"
    /\ pipe.faultAt # "analyze_land_details"
    /\ \E llm \in LlmOutcomes(env) :
         \E k \in (IF llm = "reply" THEN {"json", "text"} ELSE {"none"}) :
            pipe' = [pipe EXCEPT !.pc = "combine", !.land = AnalyzeLandDetails(llm, k),
                                 !.calls = Append(@, "analyze_land_details")]
    /\ UNCHANGED <<env, last, sweep, san, api, store, reqs, fb, rng, bus>>

\* 5. and 6. the result envelope, with llm_explanation attached only if non-null
PipelineCombine ==
    /\ pipe.pc = "combine"
    /\ ~(pipe.faultAt = "llm_explain" /\ pipe.asking > 0 /\ pipe.estimated_price > 0)
    /\ \E llm \in LlmOutcomes(env) :
         LET base == [estimated_price |-> pipe.estimated_price,
                      location_score |-> pipe.location,
                      analyze_location |-> pipe.analyze_location,
                      deal_verdict |-> pipe.deal,
                      why |-> pipe.deal,
                      confidence |-> Min(pipe.confidence, pipe.dealConfidence),
                      provenance |-> pipe.provenance,
                      land_details |-> pipe.land,
                      currency |-> "LKR",
                      price_per_sqft |-> pipe.price_per_sqft]
             ask  == pipe.asking > 0 /\ pipe.estimated_price > 0
         IN pipe' = [pipe EXCEPT
                       !.pc = "done", !.outcome = "returned",
                       !.calls = IF ask THEN Append(@, "llm_explain") ELSE @,
                       !.result = IF ask /\ LlmExplain(llm) # "None"
                                  THEN [k \in DOMAIN base \cup {"llm_explanation"} |->
                                          IF k = "llm_explanation" THEN "text" ELSE base[k]]
                                  ELSE base]
    /\ UNCHANGED <<env, last, sweep, san, api, store, reqs, fb, rng, bus>>

\* a call made directly inside the outer try lets an exception out
PipelineStageRaises ==
    /\ \/ pipe.pc = "price" /\ pipe.faultAt = "estimate_price"
       \/ pipe.pc = "blend" /\ pipe.faultAt = "llm_estimate_market_value"
       \/ pipe.pc = "location" /\ pipe.faultAt = "analyze_location"
       \/ pipe.pc = "deal" /\ pipe.faultAt = "evaluate_deal"
       \/ pipe.pc = "land" /\ pipe.faultAt = "analyze_land_details"
       \/ /\ pipe.pc = "combine" /\ pipe.faultAt = "llm_explain"
          /\ pipe.asking > 0 /\ pipe.estimated_price > 0
    /\ pipe' = CatchAtTopLevel(pipe, pipe.faultAt)
    /\ UNCHANGED <<env, last, sweep, san, api, store, reqs, fb, rng, bus>>

\* the caller (analyze_property) reads the result; the next request may start
PipelineFinish ==
    /\ pipe.pc = "done"
    /\ pipe' = IdlePipe
    /\ UNCHANGED <<env, last, sweep, san, api, store, reqs, fb, rng, bus>>

(***************************************************************************)
(* SecurityAgent.sanitize_input (app/agents/security_agent.py).  A text is *)
(* a sequence of one-character strings.  MaxSanitizedLength stands for the *)
(* 10000 of the length limit, scaled down so that bounded texts exceed it. *)
(***************************************************************************)
MaxTextLen == 4
MaxSanitizedLength == 16

Alphabet == {"&", "<", " ", "k", "i", "l"}

Texts == UNION { [1..n -> Alphabet] : n \in 0..MaxTextLen }

UpperCase == <<"A", "B", "C", "D", "E", "F", "G", "H", "I", "J", "K", "L", "M",
               "N", "O", "P", "Q", "R", "S", "T", "U", "V", "W", "X", "Y", "Z">>
LowerCase == <<"a", "b", "c", "d", "e", "f", "g", "h", "i", "j", "k", "l", "m",
               "n", "o", "p", "q", "r", "s", "t", "u", "v", "w", "x", "y", "z">>
Digits == {"0", "1", "2", "3", "4", "5", "6", "7", "8", "9"}

\* \w of the regular expressions
WordChars == {UpperCase[i] : i \in 1..26} \cup {LowerCase[i] : i \in 1..26} \cup Digits \cup {"_"}

\* re.IGNORECASE
Lower(c) == IF \E i \in 1..26 : UpperCase[i] = c
            THEN LowerCase[CHOOSE i \in 1..26 : UpperCase[i] = c]
            ELSE c

\* html.escape(text), quote=True
HtmlEscapeChar(c) ==
    CASE c = "&"  -> <<"&", "a", "m", "p", ";">>
      [] c = "<"  -> <<"&", "l", "t", ";">>
      [] c = ">"  -> <<"&", "g", "t", ";">>
      [] c = "\"" -> <<"&", "q", "u", "o", "t", ";">>
      [] c = "'"  -> <<"&", "#", "x", "2", "7", ";">>
      [] OTHER    -> <<c>>

RECURSIVE HtmlEscape(_)
HtmlEscape(s) == IF s = <<>> THEN <<>> ELSE HtmlEscapeChar(Head(s)) \o HtmlEscape(Tail(s))

\* the words of toxicity_patterns
ToxicWords ==
    { <<"k", "i", "l", "l">>, <<"h", "a", "t", "e">>, <<"a", "t", "t", "a", "c", "k">>,
      <<"d", "e", "s", "t", "r", "o", "y">>, <<"h", "a", "r", "m">>,
      <<"r", "a", "c", "i", "s", "t">>, <<"s", "e", "x", "i", "s", "t">>,
      <<"d", "i", "s", "c", "r", "i", "m", "i", "n", "a", "t", "o", "r", "y">>,
      <<"i", "l", "l", "e", "g", "a", "l">>, <<"u", "n", "l", "a", "w", "f", "u", "l">>,
      <<"c", "r", "i", "m", "i", "n", "a", "l">> }

Redacted == <<"[", "R", "E", "D", "A", "C", "T", "E", "D", "]">>

IsWordAt(s, i) == i \in 1..Len(s) /\ s[i] \in WordChars

\* \b just before position i
WordBoundary(s, i) == IsWordAt(s, i - 1) # IsWordAt(s, i)

MatchAt(s, i, w) ==
    /\ i + Len(w) - 1 <= Len(s)
    /\ \A j \in 1..Len(w) : Lower(s[i + j - 1]) = w[j]

\* toxicity_regex.sub('[REDACTED]', s): leftmost matches, left to right
RECURSIVE RedactToxicFrom(_, _)
RedactToxicFrom(s, i) ==
    IF i > Len(s) THEN <<>>
    ELSE LET ws == { w \in ToxicWords :
                       WordBoundary(s, i) /\ MatchAt(s, i, w) /\ WordBoundary(s, i + Len(w)) }
         IN IF ws # {}
            THEN Redacted \o RedactToxicFrom(s, i + Len(CHOOSE w \in ws : TRUE))
            ELSE <<s[i]>> \o RedactToxicFrom(s, i + 1)

RedactToxic(s) == RedactToxicFrom(s, 1)

\* pii_regex.sub('[PII_REDACTED]', s): each pii pattern needs a digit or an "@";
\* a text without them is returned as it is
RedactPii(s) == s

\* re.sub(r'\s+', ' ', s)
RECURSIVE CollapseWhitespace(_)
CollapseWhitespace(s) ==
    IF Len(s) < 2 THEN s
    ELSE IF s[1] = " " /\ s[2] = " " THEN CollapseWhitespace(Tail(s))
    ELSE <<s[1]>> \o CollapseWhitespace(Tail(s))

\* .strip() of a text whose whitespace runs are single spaces
Strip(s) ==
    LET a == IF s # <<>> /\ s[1] = " " THEN Tail(s) ELSE s
    IN IF a # <<>> /\ a[Len(a)] = " " THEN SubSeq(a, 1, Len(a) - 1) ELSE a

TruncationMarker == <<".", ".", ".", " ", "[", "T", "R", "U", "N", "C", "A", "T", "E", "D", "]">>

Truncate(s) ==
    IF Len(s) > MaxSanitizedLength THEN SubSeq(s, 1, MaxSanitizedLength) \o TruncationMarker
    ELSE s

SanitizeInput(text) ==
    IF text = <<>> THEN <<>>
    ELSE Truncate(Strip(CollapseWhitespace(RedactPii(RedactToxic(HtmlEscape(text))))))

IdleSan == [pc |-> "idle", text |-> <<>>, once |-> <<>>, twice |-> <<>>]

\* sanitize_input(x)
CallSanitizeInput ==
    /\ san.pc = "idle"
    /\ \E x \in Texts :
         san' = [pc |-> "once", text |-> x, once |-> SanitizeInput(x), twice |-> <<>>]
    /\ UNCHANGED <<env, last, sweep, pipe, api, store, reqs, fb, rng, bus>>

\* the sanitized text is sanitized again (stored text that is re-submitted)
CallSanitizeInputAgain ==
    /\ san.pc = "once"
    /\ san' = [san EXCEPT !.pc = "twice", !.twice = SanitizeInput(san.once)]
    /\ UNCHANGED <<env, last, sweep, pipe, api, store, reqs, fb, rng, bus>>

SanitizeReturn ==
    /\ san.pc \in {"once", "twice"}
    /\ san' = IdleSan
    /\ UNCHANGED <<env, last, sweep, pipe, api, store, reqs, fb, rng, bus>>

(***************************************************************************)
(* SecurityAgent._is_safe_url (app/agents/security_agent.py).  A URL is a  *)
(* sequence of tokens: the punctuation characters ":", "/" and "@" one by  *)
(* one, and names (scheme names, host names, path segments) as whole       *)
(* tokens.  No name token contains ":" or "/", and an allow-listed name    *)
(* occurs in a text only as a whole token, so splitting and the substring  *)
(* test of the code are splitting and membership on tokens.                *)
(***************************************************************************)
SafeSchemes == {"http", "https"}
SafeDomains == {"example.com", "trusted-domain.com"}

SchemeTokens == {"http", "HTTPS", "ftp", "javascript"}
HostTokens == {"example.com", "trusted-domain.com", "evil.org", ".attacker.org", "www.", "@"}
MaxHostTokens == 2

Hosts == UNION { [1..n -> HostTokens] : n \in 0..MaxHostTokens }
UrlTails == {<<>>, <<"/", "path">>, <<":", "8080">>, <<"/", "example.com">>}

Urls ==
    {<<>>, <<"path">>, <<"/", "path">>, <<"example.com">>}
      \cup { <<s, ":", "/", "/">> \o h \o t : s \in SchemeTokens, h \in Hosts, t \in UrlTails }
      \cup { <<":", "/", "/">> \o h : h \in Hosts }

\* scheme.lower()
SchemeLower(s) ==
    CASE s = "HTTP"  -> "http"
      [] s = "HTTPS" -> "https"
      [] s = "FTP"   -> "ftp"
      [] OTHER       -> s

\* position of the first "://" in url, 0 if there is none
SchemeSeparator(url) ==
    LET at == { i \in 1..Len(url) : i + 2 <= Len(url)
                   /\ url[i] = ":" /\ url[i + 1] = "/" /\ url[i + 2] = "/" }
    IN IF at = {} THEN 0 ELSE CHOOSE i \in at : \A j \in at : i <= j

\* s.split(c)[0]
BeforeFirst(s, c) ==
    LET at == { i \in 1..Len(s) : s[i] = c }
    IN IF at = {} THEN s ELSE SubSeq(s, 1, (CHOOSE i \in at : \A j \in at : i <= j) - 1)

\* rest.split('/')[0].split(':')[0]
UrlDomain(url) ==
    LET k == SchemeSeparator(url)
    IN BeforeFirst(BeforeFirst(SubSeq(url, k + 3, Len(url)), "/"), ":")

\* url.split('://', 1)[0]
UrlScheme(url) == SubSeq(url, 1, SchemeSeparator(url) - 1)

\* any(safe_domain in domain for safe_domain in safe_domains) is a substring test
IsSafeUrl(url) ==
    IF url = <<>> THEN FALSE
    ELSE IF SchemeSeparator(url) = 0 THEN TRUE
    ELSE /\ Len(UrlScheme(url)) = 1
         /\ SchemeLower(UrlScheme(url)[1]) \in SafeSchemes
         /\ \E i \in 1..Len(UrlDomain(url)) : UrlDomain(url)[i] \in SafeDomains

CallIsSafeUrl ==
    /\ last.stage = "none"
    /\ \E url \in Urls :
         last' = [stage |-> "_is_safe_url", url |-> url, res |-> IsSafeUrl(url)]
    /\ UNCHANGED <<env, sweep, pipe, san, api, store, reqs, fb, rng, bus>>

(***************************************************************************)
(* SecurityAgent.filter_output: _filter_recursive over the whole payload,  *)
(* then _sanitize_provenance over the already filtered provenance list.    *)
(* A provenance entry is a dict with doc_id, snippet and link, or a bare   *)
(* string.                                                                 *)
(***************************************************************************)
DocIds == { <<"d", "o", "c", "1">>, <<"k", "i", "l", "l">>, <<"k", "&", "l">>, <<"i", " ", " ", "l">> }
Snippets == { <<"i">>, <<"<", "i">> }
NoLink == <<"None">>
Links == { NoLink, <<"http", ":", "/", "/", "example.com">>, <<"http", ":", "/", "/", "evil.org">>,
           <<"/", "path">> }

ProvenanceEntries ==
    [kind : {"dict"}, doc_id : DocIds, snippet : Snippets, link : Links]
      \cup { [kind |-> "str", doc_id |-> <<>>, snippet |-> <<"i">>, link |-> NoLink] }

MaxProvenance == 2

Payloads ==
    { [empty |-> TRUE, hasProvenance |-> FALSE, provenance |-> <<>>, message |-> <<>>] }
      \cup [empty : {FALSE}, hasProvenance : {FALSE}, provenance : {<<>>}, message : Snippets]
      \cup [empty : {FALSE}, hasProvenance : {TRUE},
            provenance : UNION { [1..n -> ProvenanceEntries] : n \in 0..MaxProvenance },
            message : {<<"i">>}]

\* _filter_recursive on one provenance entry: every string leaf goes through
\* sanitize_input (a link of Links has nothing to escape, redact or cut)
FilterRecursiveEntry(e) ==
    [e EXCEPT !.doc_id = SanitizeInput(@), !.snippet = SanitizeInput(@)]

RECURSIVE FilterRecursiveList(_)
FilterRecursiveList(l) ==
    IF l = <<>> THEN <<>> ELSE <<FilterRecursiveEntry(Head(l))>> \o FilterRecursiveList(Tail(l))

\* one dict item of _sanitize_provenance: str(doc_id), the snippet sanitized once
\* more, the link kept only if _is_safe_url accepts it
SanitizeProvenanceItem(item) ==
    [doc_id |-> item.doc_id,
     snippet |-> SanitizeInput(item.snippet),
     link |-> IF item.link # NoLink /\ IsSafeUrl(item.link) THEN item.link ELSE NoLink]

RECURSIVE SanitizeProvenance(_)
SanitizeProvenance(l) ==
    IF l = <<>> THEN <<>>
    ELSE (IF Head(l).kind = "dict" THEN <<SanitizeProvenanceItem(Head(l))>> ELSE <<>>)
           \o SanitizeProvenance(Tail(l))

FilterOutput(payload) ==
    IF payload.empty THEN [kind |-> "empty", provenance |-> <<>>, message |-> <<>>]
    ELSE [kind |-> "filtered",
          provenance |-> IF payload.hasProvenance
                         THEN SanitizeProvenance(FilterRecursiveList(payload.provenance))
                         ELSE <<>>,
          message |-> SanitizeInput(payload.message)]

CallFilterOutput ==
    /\ last.stage = "none"
    /\ \E payload \in Payloads :
         last' = [stage |-> "filter_output", payload |-> payload, res |-> FilterOutput(payload)]
    /\ UNCHANGED <<env, sweep, pipe, san, api, store, reqs, fb, rng, bus>>

(***************************************************************************)
(* SecurityAgent.validate_query_features.  The city is a text; a numeric   *)
(* field is given by what float() and the range test make of it.           *)
(***************************************************************************)
\* some of sri_lanka_cities
SriLankaCities ==
    { <<"c", "o", "l", "o", "m", "b", "o">>,
      <<"k", "a", "n", "d", "y">>,
      <<"g", "a", "l", "l", "e">>,
      <<"j", "a", "-", "e", "l", "a">> }

NoCity == <<"None">>
CityInputs ==
    { <<"C", "o", "l", "o", "m", "b", "o">>,
      <<"c", "o", "l", "o", "m", "b", "o">>,
      <<"C", "O", "L", "O", "M", "B", "O">>,
      <<" ", "C", "o", "l", "o", "m", "b", "o", " ">>,
      <<"j", "a", "-", "e", "l", "a">>,
      <<"C", "o", "l", "o", "m", "b", "o", "<", "b", ">">>,
      <<"<", "b", ">", "C", "o", "l", "o", "m", "b", "o">>,
      <<"G", "o", "t", "h", "a", "m">>,
      <<"k", "i", "l", "l">> }

\* str.lower() and str.title()
Upper(c) == IF \E i \in 1..26 : LowerCase[i] = c
            THEN UpperCase[CHOOSE i \in 1..26 : LowerCase[i] = c]
            ELSE c

IsCased(c) == \E i \in 1..26 : LowerCase[i] = c \/ UpperCase[i] = c

LowerText(s) == [i \in 1..Len(s) |-> Lower(s[i])]

TitleText(s) ==
    [i \in 1..Len(s) |-> IF i > 1 /\ IsCased(s[i - 1]) THEN Lower(s[i]) ELSE Upper(s[i])]

NumericFields == <<"lat", "lon", "beds", "baths", "area", "year_built", "asking_price">>

\* absent or None; a number in range; a number out of range; not a number
NumericStatus == {"absent", "ok", "out_of_range", "not_a_number"}

RawFeatureSets ==
    { f \in [city : CityInputs \cup {NoCity, <<>>}, asking_price : NumericStatus,
             area : NumericStatus, lat : NumericStatus, lon : {"absent", "ok"},
             beds : {"absent"}, baths : {"absent"}, year_built : {"absent", "ok"}] :
        (f.city \notin {<<"C", "o", "l", "o", "m", "b", "o">>, NoCity})
            => (f.area = "absent" /\ f.lat = "absent" /\ f.lon = "absent" /\ f.year_built = "absent") }

RECURSIVE NumericErrors(_, _)
NumericErrors(f, i) ==
    IF i > Len(NumericFields) THEN <<>>
    ELSE (IF f[NumericFields[i]] \in {"out_of_range", "not_a_number"}
          THEN <<"Invalid " \o NumericFields[i]>> ELSE <<>>) \o NumericErrors(f, i + 1)

\* the city as cleaned by sanitize_input(str(city_raw)).strip()
CityClean(f) == Strip(SanitizeInput(f.city))

CityAccepted(f) ==
    f.city \notin {NoCity, <<>>} /\ LowerText(CityClean(f)) \in SriLankaCities

ValidateQueryFeatures(f) ==
    LET errors ==
            (IF f.city = NoCity THEN <<"Missing required field: city">> ELSE <<>>)
              \o (IF f.asking_price = "absent"
                  THEN <<"Missing required field: asking_price">> ELSE <<>>)
              \o (IF f.city \notin {NoCity, <<>>} /\ ~CityAccepted(f)
                  THEN <<"Invalid city">> ELSE <<>>)
              \o NumericErrors(f, 1)
    IN [is_valid |-> errors = <<>>,
        keys |-> (IF CityAccepted(f) THEN {"city"} ELSE {})
                   \cup { NumericFields[i] : i \in { j \in 1..Len(NumericFields) :
                                  f[NumericFields[j]] \in {"ok", "out_of_range"} } },
        city |-> IF CityAccepted(f) THEN TitleText(CityClean(f)) ELSE <<>>,
        errors |-> errors]

CallValidateQueryFeatures ==
    /\ last.stage = "none"
    /\ \E f \in RawFeatureSets :
         last' = [stage |-> "validate_query_features", features |-> f,
                  res |-> ValidateQueryFeatures(f)]
    /\ UNCHANGED <<env, sweep, pipe, san, api, store, reqs, fb, rng, bus>>

(***************************************************************************)
(* analyze_property (app/api/query.py): plan limit, validation, storage of *)
(* the Query, the pipeline, storage of the Response, usage increment.      *)
(***************************************************************************)
\* PLAN_LIMITS.get(plan, 0)
PlanLimit(plan) ==
    CASE plan = "free"     -> 5
      [] plan = "standard" -> 50
      [] plan = "premium"  -> 500
      [] OTHER             -> 0

Users == { [plan |-> "free", used |-> 4], [plan |-> "free", used |-> 5],
           [plan |-> "free", used |-> 6], [plan |-> "standard", used |-> 49],
           [plan |-> "standard", used |-> 50], [plan |-> "trial", used |-> 0] }

\* used >= limit
LimitReachedMut_Strict(used, limit) == used > limit

LimitReached(used, limit) == used >= limit

RequestFeatureSets ==
    { f \in RawFeatureSets :
        /\ f.city \in { <<"C", "o", "l", "o", "m", "b", "o">>,
                        <<"C", "o", "l", "o", "m", "b", "o", "<", "b", ">">>, NoCity }
        /\ f.asking_price \in {"ok", "out_of_range"}
        /\ f.area \in {"absent", "ok"}
        /\ f.lat = f.lon
        /\ f.year_built = "absent" }

\* the sanitized features as the agents see them
SanitizedFeatures(v) ==
    CHOOSE f \in PipelineFeatureSets :
        /\ f.has = v.keys \ {"asking_price"}
        /\ f.coord = 1

IdleApi == [pc |-> "idle", plan |-> "free", used0 |-> 0, used |-> 0, can_purchase |-> FALSE,
            features |-> CHOOSE f \in RequestFeatureSets : f.city = NoCity /\ f.asking_price = "ok"
                                     /\ f.area = "absent" /\ f.lat = "absent",
            status |-> 0, queries |-> 0, responses |-> 0, pipelineRuns |-> 0]

ApiRequest ==
    /\ api.pc = "idle"
    /\ pipe.pc = "idle"
    /\ \E u \in Users, f \in RequestFeatureSets :
         api' = [IdleApi EXCEPT !.pc = "limit", !.plan = u.plan, !.used0 = u.used,
                                !.used = u.used, !.features = f]
    /\ UNCHANGED <<env, last, sweep, pipe, san, store, reqs, fb, rng, bus>>

\* Enforce plan limits: HTTP 402
ApiCheckLimit ==
    /\ api.pc = "limit"
    /\ api' = IF LimitReached(api.used, PlanLimit(api.plan))
              THEN [api EXCEPT !.pc = "done", !.status = 402]
              ELSE [api EXCEPT !.pc = "validate"]
    /\ UNCHANGED <<env, last, sweep, pipe, san, store, reqs, fb, rng, bus>>

\* Security validation: HTTP 400
ApiValidate ==
    /\ api.pc = "validate"
    /\ api' = IF ~ValidateQueryFeatures(api.features).is_valid
              THEN [api EXCEPT !.pc = "done", !.status = 400]
              ELSE [api EXCEPT !.pc = "store_query"]
    /\ UNCHANGED <<env, last, sweep, pipe, san, store, reqs, fb, rng, bus>>

\* db_query.insert(), then the pipeline is entered with the sanitized features
ApiStoreQueryAndRun ==
    /\ api.pc = "store_query"
    /\ api' = [api EXCEPT !.pc = "pipeline", !.queries = @ + 1, !.pipelineRuns = @ + 1]
    /\ \E asking \in AskingPrices, adj \in TagAdjustments,
          fault \in {"none", "evaluate_deal"} :
         pipe' = [IdlePipe EXCEPT
                    !.pc = "price",
                    !.features = SanitizedFeatures(ValidateQueryFeatures(api.features)),
                    !.asking = asking, !.tagAdj = adj, !.faultAt = fault]
    /\ UNCHANGED <<env, last, sweep, san, store, reqs, fb, rng, bus>>

\* db_response.insert(), filter_output, the usage increment and the 200 answer
ApiStoreResponse ==
    /\ api.pc = "pipeline"
    /\ pipe.pc = "done"
    /\ api' = [api EXCEPT !.pc = "done", !.status = 200, !.responses = @ + 1,
                          !.used = @ + 1,
                          !.can_purchase = (api.used + 1 >= PlanLimit(api.plan))]
    /\ pipe' = IdlePipe
    /\ UNCHANGED <<env, last, sweep, san, store, reqs, fb, rng, bus>>

ApiReturn ==
    /\ api.pc = "done"
    /\ api' = IdleApi
    /\ UNCHANGED <<env, last, sweep, pipe, san, store, reqs, fb, rng, bus>>

(***************************************************************************)
(* LocationAgent.get_nearby_amenities: the queries sent to the map-data    *)
(* service within one call.  An element is given by what the loop makes of *)
(* it: a category it is appended to, "nocoords" (skipped), or "malformed"  *)
(* (the loop raises).                                                      *)
(***************************************************************************)
NearbyCategories ==
    {"hospitals", "supermarkets", "pharmacies", "schools", "universities", "police",
     "fire_stations", "bus_stations", "train_stations", "roads", "religious_places",
     "waterways", "water_bodies", "railways", "industrial_areas"}

\* the categories of the dict returned by the outer except clause
FailureCategories == NearbyCategories \ {"religious_places"}

ElementKinds == {"hospitals", "roads", "nocoords", "malformed"}
MaxElements == 2
ElementLists == UNION { [1..n -> ElementKinds] : n \in 0..MaxElements }

\* a reply of the service: raise_for_status()/json() raising, or the elements
QueryReplies == { [ok |-> FALSE, elements |-> <<>>] } \cup [ok : {TRUE}, elements : ElementLists]

FirstRadii == [amenity |-> 1500, road |-> 2000]

\* amenity_radius2, road_radius2, with the road radius left as it was
RetryRadiiMut_AmenityOnly(r) == [amenity |-> r.amenity * 2, road |-> r.road]

RetryRadii(r) == [amenity |-> r.amenity * 2, road |-> r.road * 2]

CountKind(elements, k) == Cardinality({ i \in 1..Len(elements) : elements[i] = k })

\* the result built from the elements, or the dict of the outer except clause
NearbyResult(elements) ==
    IF \E i \in 1..Len(elements) : elements[i] = "malformed"
    THEN [keys |-> FailureCategories, hospitals |-> 0, roads |-> 0, failed |-> TRUE]
    ELSE [keys |-> NearbyCategories, hospitals |-> Min(10, CountKind(elements, "hospitals")),
          roads |-> Min(10, CountKind(elements, "roads")), failed |-> FALSE]

NearbyFailure == [keys |-> FailureCategories, hospitals |-> 0, roads |-> 0, failed |-> TRUE]

NoNearbyResult == [keys |-> {}, hospitals |-> 0, roads |-> 0, failed |-> FALSE]

\* the call is entered and the first query is posted
CallGetNearbyAmenities ==
    /\ last.stage = "none"
    /\ \E c \in {1, 2} :
         last' = [stage |-> "get_nearby_amenities", coord |-> c, pc |-> "first_sent",
                  queries |-> <<FirstRadii>>, replies |-> <<>>, raised |-> FALSE,
                  res |-> NoNearbyResult]
    /\ UNCHANGED <<env, sweep, pipe, san, api, store, reqs, fb, rng, bus>>

\* the first reply arrives; with no elements the retry is posted
NearbyFirstReply ==
    /\ last.stage = "get_nearby_amenities"
    /\ last.pc = "first_sent"
    /\ \E reply \in QueryReplies :
         last' = IF ~reply.ok
                 THEN [last EXCEPT !.pc = "returned", !.replies = Append(@, reply),
                                   !.res = NearbyFailure]
                 ELSE IF reply.elements = <<>>
                 THEN [last EXCEPT !.pc = "retry_sent", !.replies = Append(@, reply),
                                   !.queries = Append(@, RetryRadii(last.queries[1]))]
                 ELSE [last EXCEPT !.pc = "returned", !.replies = Append(@, reply),
                                   !.res = NearbyResult(reply.elements)]
    /\ UNCHANGED <<env, sweep, pipe, san, api, store, reqs, fb, rng, bus>>

\* the reply to the retry arrives; a failure is logged and elements stay empty
NearbyRetryReply ==
    /\ last.stage = "get_nearby_amenities"
    /\ last.pc = "retry_sent"
    /\ \E reply \in QueryReplies :
         last' = [last EXCEPT !.pc = "returned", !.replies = Append(@, reply),
                              !.res = NearbyResult(IF reply.ok THEN reply.elements ELSE <<>>)]
    /\ UNCHANGED <<env, sweep, pipe, san, api, store, reqs, fb, rng, bus>>

\* the except clause of analyze_location
AnalyzeLocationError ==
    [score |-> 50, bullets |-> 1, summary |-> "Unable to analyze location", provenance |-> 0,
     error |-> TRUE]

\* analyze_location with a lat or lon that is not a number: the subtraction raises
CallAnalyzeLocationBadInput ==
    /\ last.stage = "none"
    /\ \E city \in LocationCities, district \in LocationDistricts, jitter \in Jitters :
         last' = [stage |-> "analyze_location", coord |-> -1, city |-> city,
                  district |-> district, jitter |-> jitter, res |-> AnalyzeLocationError]
    /\ UNCHANGED <<env, sweep, pipe, san, api, store, reqs, fb, rng, bus>>

(***************************************************************************)
(* The users collection and the handlers that write it.  There is one      *)
(* user.  Every request gets its own User document from get_current_user   *)
(* (await User.get) and writes it back with await current_user.save(),     *)
(* which stores every field of the document the handler holds.  Handlers   *)
(* of different requests interleave at their await points.                 *)
(*   store.user      the users document                                    *)
(*   store.stripe    Stripe's side of a checkout session                   *)
(*   store.payments  the status of the Payment record of a session         *)
(*   store.completed analyses answered with 200 since the last             *)
(*                   reset_subscription                                    *)
(*   store.op        the last purchase operation and the user it found     *)
(***************************************************************************)
PaidPlans == {"standard", "premium"}

\* the keys of PLAN_LIMITS
KnownPlans == {"free", "standard", "premium"}

\* User(...) as signup creates it
NewUser == [plan |-> "free", analyses_used |-> 0, can_purchase_new_plan |-> TRUE]

\* User.is_limit_exhausted
IsLimitExhausted(u) == u.analyses_used >= PlanLimit(u.plan)

\* User.can_purchase_plan
CanPurchasePlan(u) == u.plan = "free" \/ IsLimitExhausted(u)

\* User.reset_subscription
ResetSubscription(u, new_plan) ==
    [u EXCEPT !.plan = new_plan, !.analyses_used = 0, !.can_purchase_new_plan = FALSE]

\* "Increment usage" of analyze_property, on the document of the request
IncrementUsage(u, used, limit) ==
    [u EXCEPT !.analyses_used = used + 1,
              !.can_purchase_new_plan = IF used + 1 >= limit THEN TRUE ELSE @]

Sessions == {"cs_1", "cs_2"}

NoOp == [name |-> "none", session |-> "none", plan |-> "none", user |-> NewUser,
         record |-> "none", reset |-> FALSE, status |-> 0]

EmptyStore ==
    [user |-> NewUser,
     stripe |-> [s \in Sessions |-> [plan |-> "none", payment_status |-> "none"]],
     payments |-> [s \in Sessions |-> "none"],
     completed |-> 0,
     op |-> NoOp]

ReqIds == {1, 2}

IdleReq == [pc |-> "idle", user |-> NewUser, used |-> 0, limit |-> 0, status |-> 0]

\* get_current_user: await User.get(ObjectId(user_id))
QuotaLoad(i) ==
    /\ reqs[i].pc = "idle"
    /\ store.completed < MaxCompleted
    /\ reqs' = [reqs EXCEPT ![i] = [IdleReq EXCEPT !.pc = "loaded", !.user = store.user]]
    /\ UNCHANGED <<env, last, sweep, pipe, san, api, store, fb, rng, bus>>

\* analyze_property up to its first await: used and limit are read from the
\* request's document; 402 at used >= limit
QuotaCheck(i) ==
    /\ reqs[i].pc = "loaded"
    /\ LET u == reqs[i].user
           used == u.analyses_used
           limit == PlanLimit(u.plan)
       IN reqs' = [reqs EXCEPT ![i] =
                     IF LimitReached(used, limit)
                     THEN [@ EXCEPT !.pc = "done", !.status = 402]
                     ELSE [@ EXCEPT !.pc = "running", !.used = used, !.limit = limit]]
    /\ UNCHANGED <<env, last, sweep, pipe, san, api, store, fb, rng, bus>>

\* the pipeline has returned and the Response is stored: analyses_used = used + 1
\* on the request's document, then save()
QuotaFinish(i) ==
    /\ reqs[i].pc = "running"
    /\ LET u == IncrementUsage(reqs[i].user, reqs[i].used, reqs[i].limit)
       IN /\ store' = [store EXCEPT !.user = u, !.completed = @ + 1]
          /\ reqs' = [reqs EXCEPT ![i] = [@ EXCEPT !.pc = "done", !.user = u, !.status = 200]]
    /\ UNCHANGED <<env, last, sweep, pipe, san, api, fb, rng, bus>>

QuotaReturn(i) ==
    /\ reqs[i].pc = "done"
    /\ reqs' = [reqs EXCEPT ![i] = IdleReq]
    /\ UNCHANGED <<env, last, sweep, pipe, san, api, store, fb, rng, bus>>



(***************************************************************************)
(* Purchases: upgrade_plan, create_checkout_session, verify_session, and   *)
(* an analysis request, each run from its get_current_user to its save()   *)
(* with no other request in between.  A checkout session is created        *)
(* unpaid; the customer paying it is a step of the environment.            *)
(***************************************************************************)
RequestedPlans == {"free", "standard", "premium", "gold"}

\* upgrade_plan: 400 for an unknown plan and for a paid plan the user cannot purchase
UpgradePlan ==
    /\ \E plan \in RequestedPlans :
         LET u == store.user
             op == [NoOp EXCEPT !.name = "upgrade_plan", !.plan = plan, !.user = u]
         IN store' =
              IF plan \notin KnownPlans
              THEN [store EXCEPT !.op = [op EXCEPT !.status = 400]]
              ELSE IF plan \in PaidPlans /\ ~CanPurchasePlan(u)
              THEN [store EXCEPT !.op = [op EXCEPT !.status = 400]]
              ELSE IF plan \in PaidPlans
              THEN [store EXCEPT !.user = ResetSubscription(u, plan), !.completed = 0,
                                 !.op = [op EXCEPT !.status = 200, !.reset = TRUE]]
              ELSE [store EXCEPT !.user = [u EXCEPT !.plan = plan],
                                 !.op = [op EXCEPT !.status = 200]]
    /\ UNCHANGED <<env, last, sweep, pipe, san, api, reqs, fb, rng, bus>>

\* create_checkout_session: Stripe returns the new session s; a pending Payment is saved
CreateCheckoutSession ==
    /\ \E s \in Sessions, plan \in RequestedPlans :
         /\ store.stripe[s].payment_status = "none"
         /\ LET u == store.user
                op == [NoOp EXCEPT !.name = "create_checkout_session", !.session = s,
                                   !.plan = plan, !.user = u]
            IN store' =
                 IF plan \notin PaidPlans \/ ~CanPurchasePlan(u)
                 THEN [store EXCEPT !.op = [op EXCEPT !.status = 400]]
                 ELSE [store EXCEPT !.stripe[s] = [plan |-> plan, payment_status |-> "unpaid"],
                                    !.payments[s] = "pending",
                                    !.op = [op EXCEPT !.status = 200]]
    /\ UNCHANGED <<env, last, sweep, pipe, san, api, reqs, fb, rng, bus>>

\* the customer pays on Stripe's page
CustomerPays ==
    /\ \E s \in Sessions :
         /\ store.stripe[s].payment_status = "unpaid"
         /\ store' = [store EXCEPT !.stripe[s].payment_status = "paid", !.op = NoOp]
    /\ UNCHANGED <<env, last, sweep, pipe, san, api, reqs, fb, rng, bus>>

\* verify_session: Session.retrieve raises for an unknown id (400); a paid session
\* completes the Payment and resets the subscription; any other marks it canceled
VerifySession ==
    /\ \E s \in Sessions :
         LET u == store.user
             session == store.stripe[s]
             op == [NoOp EXCEPT !.name = "verify_session", !.session = s,
                                !.plan = session.plan, !.user = u,
                                !.record = store.payments[s]]
         IN store' =
              IF session.payment_status = "none"
              THEN [store EXCEPT !.op = [op EXCEPT !.status = 400]]
              ELSE IF session.payment_status = "paid"
              THEN [store EXCEPT !.payments[s] = "completed",
                                 !.user = ResetSubscription(u, session.plan),
                                 !.completed = 0,
                                 !.op = [op EXCEPT !.status = 200, !.reset = TRUE]]
              ELSE [store EXCEPT !.payments[s] = "canceled",
                                 !.op = [op EXCEPT !.status = 200]]
    /\ UNCHANGED <<env, last, sweep, pipe, san, api, reqs, fb, rng, bus>>

\* analyze_property from its limit check to its save()
AnalyzeRequest ==
    /\ store.completed < MaxAnalyses
    /\ LET u == store.user
           used == u.analyses_used
           limit == PlanLimit(u.plan)
       IN store' =
            IF LimitReached(used, limit)
            THEN [store EXCEPT !.op = [NoOp EXCEPT !.name = "analyze_property", !.status = 402]]
            ELSE [store EXCEPT !.user = IncrementUsage(u, used, limit), !.completed = @ + 1,
                               !.op = [NoOp EXCEPT !.name = "analyze_property", !.status = 200]]
    /\ UNCHANGED <<env, last, sweep, pipe, san, api, reqs, fb, rng, bus>>

(***************************************************************************)
(* The process-wide generator of the random module, and                    *)
(* PriceAgent._get_comparable_properties, which reseeds it.  A generator   *)
(* state is named by the seed it was last given and the number of values   *)
(* drawn since; the values it yields are fixed by that state.  Seeds 0..999*)
(* come from random.seed(seed_value); a negative seed stands for the OS    *)
(* entropy random.seed() and the import of the module take.                *)
(*   rng.gen    the generator state                                        *)
(*   rng.first  per argument triple, the first list returned for it        *)
(***************************************************************************)
EntropySeeds == {-1, -2}
MaxDrawn == 2

\* random.seed(a)
RandomSeed(a) == [seed |-> a, drawn |-> 0]

\* rows of Coordinates and search radii the callers of the model pass
CompCoords == {1, 3, 4}
CompDistances == {2, 5}

\* seed_value = int((lat + lon) * 10000) % 1000
SeedValue(coord) == Coordinates[coord].seed

\* random.randint(3, 5) as the first value of generator state g: CPython's value
\* for the seeds of Coordinates, a value fixed by the state for any other
NumComps(g) ==
    IF g.drawn = 0 /\ \E c \in 1..Len(Coordinates) : Coordinates[c].seed = g.seed
    THEN Coordinates[CHOOSE c \in 1..Len(Coordinates) : Coordinates[c].seed = g.seed].numComps
    ELSE 3 + ((g.seed + g.drawn) % 3)

\* the list built from the values that follow generator state g: every comparable
\* is made of its index, the values drawn for it, the subject's coordinates
\* (comp_lat = lat + lat_offset) and the radius (random.uniform(0.1, distance_km))
ComparableProperties(g, coord, distance_km) ==
    [i \in 1..NumComps(g) |->
        [id |-> i, stream |-> g, lat |-> Coordinates[coord].lat,
         lon |-> Coordinates[coord].lon, within |-> distance_km]]

\* the generator state the draws of a call start from, without the reseeding
CompStreamMut_NoSeed(coord) == rng.gen

\* the generator state the draws of a call start from: random.seed(seed_value)
CompStream(coord) == RandomSeed(SeedValue(coord))

IdleRng == [gen |-> RandomSeed(-1),
            first |-> [a \in CompCoords \X CompDistances |-> <<>>]]

\* a draw made anywhere else (the jitter of _calculate_location_score, _generate_comps)
OtherRandomUse ==
    /\ rng.gen.drawn < MaxDrawn
    /\ rng' = [rng EXCEPT !.gen.drawn = @ + 1]
    /\ UNCHANGED <<env, last, sweep, pipe, san, api, store, reqs, fb, bus>>

\* _get_comparable_properties(lat, lon, distance_km); it ends with random.seed()
CallGetComparableProperties ==
    /\ last.stage = "none"
    /\ \E coord \in CompCoords, distance_km \in CompDistances, e \in EntropySeeds :
         LET res == ComparableProperties(CompStream(coord), coord, distance_km)
             args == <<coord, distance_km>>
             repeat == rng.first[args] # <<>>
         IN /\ last' = [stage |-> "_get_comparable_properties", coord |-> coord,
                        distance_km |-> distance_km, before |-> rng.gen,
                        repeat |-> repeat, res |-> res]
            /\ rng' = [gen |-> RandomSeed(e),
                       first |-> IF repeat THEN rng.first
                                 ELSE [rng.first EXCEPT ![args] = res]]
    /\ UNCHANGED <<env, sweep, pipe, san, api, store, reqs, fb, bus>>

(***************************************************************************)
(* submit_feedback for one user and one response.  The feedback collection *)
(* has no unique index; its documents for the pair are kept in insertion   *)
(* order, which is the order find_one looks through them.                  *)
(*   fb.records  is_positive of each Feedback document of the pair         *)
(*   fb.reqs     the requests in flight                                    *)
(*   fb.last     is_positive of the request that completed last            *)
(***************************************************************************)
FeedbackIds == {1, 2}

IdleFeedbackReq == [pc |-> "idle", is_positive |-> FALSE, existing |-> 0]

EmptyFeedback == [records |-> <<>>, reqs |-> [i \in FeedbackIds |-> IdleFeedbackReq], last |-> <<>>]

\* await Response.get(...): the response exists
FeedbackStart(i) ==
    /\ fb.reqs[i].pc = "idle"
    /\ \E v \in BOOLEAN :
         fb' = [fb EXCEPT !.reqs[i] = [IdleFeedbackReq EXCEPT !.pc = "find", !.is_positive = v]]
    /\ UNCHANGED <<env, last, sweep, pipe, san, api, store, reqs, rng, bus>>

\* await Feedback.find_one({response_id, user_id}): the first document of the pair, or None (0)
FeedbackFindOne(i) ==
    /\ fb.reqs[i].pc = "find"
    /\ fb' = [fb EXCEPT !.reqs[i].pc = "write",
                        !.reqs[i].existing = IF fb.records = <<>> THEN 0 ELSE 1]
    /\ UNCHANGED <<env, last, sweep, pipe, san, api, store, reqs, rng, bus>>

\* existing_feedback.save() or new_feedback.insert(), then the response is returned
FeedbackWrite(i) ==
    /\ fb.reqs[i].pc = "write"
    /\ LET r == fb.reqs[i]
       IN fb' = [fb EXCEPT
                   !.records = IF r.existing = 0 THEN Append(@, r.is_positive)
                               ELSE [@ EXCEPT ![r.existing] = r.is_positive],
                   !.last = <<r.is_positive>>,
                   !.reqs[i] = IdleFeedbackReq]
    /\ UNCHANGED <<env, last, sweep, pipe, san, api, store, reqs, rng, bus>>

(***************************************************************************)
(* AgentBus (protocol_agent.py).  A message is its place in the order of   *)
(* publication and its recipient; a handler is known by whether it raises. *)
(*   bus.subscribers  per agent name, its handlers                         *)
(*   bus.history      _history                                             *)
(*   bus.published    the number of publish calls made                     *)
(*   bus.handled      handler calls of the last publish that returned      *)
(*   bus.view         the last history(limit) call: its limit, the         *)
(*                    history it found and the list it returned            *)
(***************************************************************************)
AgentNames == {"price", "deal"}
HandlerKinds == {"returns", "raises"}
MaxHandlers == 1
MaxMessages == 3
MaxLimit == 3

NoView == [limit |-> -1, of |-> <<>>, res |-> <<>>]

EmptyBus == [subscribers |-> [a \in AgentNames |-> <<>>], history |-> <<>>, published |-> 0,
             handled |-> 0, view |-> NoView]

\* self._history[-limit:] as Python slices: -0 is 0, so limit 0 starts at the front
HistorySlice(history, limit) ==
    LET start == IF limit = 0 THEN 0 ELSE Max(Len(history) - limit, 0)
    IN SubSeq(history, start + 1, Len(history))

Subscribe ==
    /\ \E a \in AgentNames, h \in HandlerKinds :
         /\ Len(bus.subscribers[a]) < MaxHandlers
         /\ bus' = [bus EXCEPT !.subscribers[a] = Append(@, h)]
    /\ UNCHANGED <<env, last, sweep, pipe, san, api, store, reqs, fb, rng>>

\* publish: the message is appended, then every handler of the recipient is
\* called and what it raises is dropped
Publish ==
    /\ bus.published < MaxMessages
    /\ \E recipient \in AgentNames :
         LET msg == [id |-> bus.published + 1, recipient |-> recipient]
             hs == bus.subscribers[recipient]
         IN bus' = [bus EXCEPT
                      !.history = Append(@, msg),
                      !.published = @ + 1,
                      !.handled = Cardinality({ i \in 1..Len(hs) : hs[i] = "returns" })]
    /\ UNCHANGED <<env, last, sweep, pipe, san, api, store, reqs, fb, rng>>

History ==
    /\ \E limit \in 0..MaxLimit :
         bus' = [bus EXCEPT !.view = [limit |-> limit, of |-> bus.history,
                                      res |-> HistorySlice(bus.history, limit)]]
    /\ UNCHANGED <<env, last, sweep, pipe, san, api, store, reqs, fb, rng>>

(***************************************************************************)
(* Specifications                                                          *)
(***************************************************************************)
Init ==
    /\ env \in Envs
    /\ last = NoCall
    /\ sweep = NoSweep
    /\ pipe = IdlePipe
    /\ san = IdleSan
    /\ api = IdleApi
    /\ store = EmptyStore
    /\ reqs = [i \in ReqIds |-> IdleReq]
    /\ fb = EmptyFeedback
    /\ rng = IdleRng
    /\ bus = EmptyBus

NextAgents ==
    \/ CallEvaluateDeal
    \/ CallCalculateConfidence
    \/ CallEstimatePrice
    \/ CallAnalyzeLocation
    \/ CallLlmAnalyzeLocationRisk
    \/ CallAnalyzeLandDetails
    \/ CallLlmExplain
    \/ CallLlmEstimateMarketValue
    \/ Return

SpecAgents == Init /\ [][NextAgents]_vars

NextSweep ==
    \/ SweepStart
    \/ SweepStep
    \/ SweepEnd

SpecSweep == Init /\ [][NextSweep]_vars

NextPipeline ==
    \/ PipelineStart
    \/ PipelinePrice
    \/ PipelineBlend
    \/ PipelineLocation
    \/ PipelineDeal
    \/ PipelineLand
    \/ PipelineCombine
    \/ PipelineStageRaises
    \/ PipelineFinish

SpecPipeline == Init /\ [][NextPipeline]_vars

NextSanitize ==
    \/ CallSanitizeInput
    \/ CallSanitizeInputAgain
    \/ SanitizeReturn

SpecSanitize == Init /\ [][NextSanitize]_vars

NextSecurity ==
    \/ CallIsSafeUrl
    \/ CallFilterOutput
    \/ CallValidateQueryFeatures
    \/ Return

SpecSecurity == Init /\ [][NextSecurity]_vars

NextApi ==
    \/ ApiRequest
    \/ ApiCheckLimit
    \/ ApiValidate
    \/ ApiStoreQueryAndRun
    \/ PipelinePrice
    \/ PipelineBlend
    \/ PipelineLocation
    \/ PipelineDeal
    \/ PipelineLand
    \/ PipelineCombine
    \/ PipelineStageRaises
    \/ ApiStoreResponse
    \/ ApiReturn

SpecApi == Init /\ [][NextApi]_vars

NextNearby ==
    \/ CallGetNearbyAmenities
    \/ NearbyFirstReply
    \/ NearbyRetryReply
    \/ Return

SpecNearby == Init /\ [][NextNearby]_vars

NextLocation ==
    \/ CallAnalyzeLocation
    \/ CallAnalyzeLocationBadInput
    \/ Return

SpecLocation == Init /\ [][NextLocation]_vars

NextQuota == \E i \in ReqIds : QuotaLoad(i) \/ QuotaCheck(i) \/ QuotaFinish(i) \/ QuotaReturn(i)

NextComps == CallGetComparableProperties \/ OtherRandomUse \/ Return

SpecComps == Init /\ [][NextComps]_vars

SpecQuota == Init /\ [][NextQuota]_vars

NextBus == Subscribe \/ Publish \/ History

SpecBus == Init /\ [][NextBus]_vars

NextFeedback == \E i \in FeedbackIds : FeedbackStart(i) \/ FeedbackFindOne(i) \/ FeedbackWrite(i)

SpecFeedback == Init /\ [][NextFeedback]_vars

NextPurchase ==
    UpgradePlan \/ CreateCheckoutSession \/ CustomerPays \/ VerifySession \/ AnalyzeRequest

SpecPurchase == Init /\ [][NextPurchase]_vars

(***************************************************************************)
(* C1: evaluate_deal returns "Good Deal" exactly when ratio <= 0.85,       *)
(* "Fair" exactly when 0.85 < ratio <= 1.15 and "Overpriced" exactly when  *)
(* ratio > 1.15, where ratio = asking/estimated, taken as 1.0 when         *)
(* estimated <= 0 (so estimated <= 0 always gives "Fair").                 *)
(***************************************************************************)
C1_VerdictByRatio ==
    last.stage = "evaluate_deal" =>
        LET a == last.asking
            e == last.estimated
            v == last.res.verdict
        IN /\ e <= 0 => v = "Fair"
           /\ e > 0 =>
                /\ (v = "Good Deal") <=> (20 * a <= 17 * e)
                /\ (v = "Fair") <=> (20 * a > 17 * e /\ 20 * a <= 23 * e)
                /\ (v = "Overpriced") <=> (20 * a > 23 * e)

\* the boundary ratio 0.85 itself (17/20) has been classified
C1_Witness ==
    /\ last.stage = "evaluate_deal"
    /\ last.estimated = 20
    /\ last.asking = 17
    /\ last.res.verdict = "Good Deal"

(***************************************************************************)
(* C3: every result of estimate_price has exactly 3 comps.                 *)
(***************************************************************************)
C3_CompsExactlyThree ==
    last.stage = "estimate_price" => Len(last.res.comps) = 3

(***************************************************************************)
(* C4: _calculate_confidence lies in [0.1, 0.95] for every feature set,    *)
(* whichever of the eight fields are absent, null or present.              *)
(***************************************************************************)
C4_ConfidenceBounds ==
    last.stage = "calculate_confidence" => (10 <= last.res /\ last.res <= 95)

\* all eight fields present: 0.9 + 0.06 is cut to 0.95
C4_Witness ==
    /\ last.stage = "calculate_confidence"
    /\ \A k \in ConfidenceFeatures : last.st[k] = "present"
    /\ last.res = 95

(***************************************************************************)
(* C5: with an LLM client configured whose every call raises, each stage   *)
(* returns its well-formed non-LLM result: estimate_price the heuristic    *)
(* estimate, analyze_location a score/bullets/summary/provenance object,   *)
(* evaluate_deal a verdict, analyze_land_details the fixed fallback        *)
(* object, llm_explain and llm_estimate_market_value None, and             *)
(* llm_analyze_location_risk the heuristic risk.                           *)
(***************************************************************************)
C5_FallbackGuarantee ==
    (env.apiKey /\ env.oracleDown) =>
        /\ last.stage = "estimate_price" =>
              /\ last.res.path = "fallback"
              /\ ~last.res.error
              /\ last.res.estimated_price = HeuristicPrice(last.features)
              /\ last.res.estimated_price > 0
              /\ Len(last.res.comps) = 3
        /\ last.stage = "analyze_location" =>
              /\ ~last.res.error
              /\ last.res.score \in 0..100
              /\ last.res.summary \in {"Excellent", "Very good", "Good", "Fair", "low score"}
              /\ last.res.provenance >= 1
              /\ last.res.bullets >= 0
        /\ last.stage = "evaluate_deal" =>
              last.res.verdict \in {"Good Deal", "Fair", "Overpriced"}
        /\ last.stage = "analyze_land_details" => last.res = "fallback"
        /\ last.stage = "llm_explain" => last.res = "None"
        /\ last.stage = "llm_estimate_market_value" => ~last.res.some
        /\ last.stage = "llm_analyze_location_risk" =>
              /\ last.res.source = "heuristic"
              /\ last.res.level \in {"Low", "Medium", "High"}
              /\ last.res.factors # <<>>

\* estimate_price has fallen back after the LLM call raised
C5_Witness ==
    /\ env.apiKey /\ env.oracleDown
    /\ last.stage = "estimate_price"
    /\ last.llm = "throws"
    /\ last.res.path = "fallback"

ParseFailure(r) == r.kind \in {"badjson", "plain"}

C9_ConfidenceIsEstimator ==
    last.stage = "estimate_price" =>
        last.res.confidence = CalculateConfidence(StatusOf(last.features))

\* 0.5 + 0.08 per required field present + 0.02 per bonus field present, at most 0.95
EstimatorValue(f) ==
    LET v == 50 + 8 * Cardinality(f.has \cap RequiredFeatures)
                + 2 * Cardinality(f.has \cap BonusFeatures)
    IN IF v > 95 THEN 95 ELSE v

(***************************************************************************)
(* C9 amended: the confidence equals the Confidence Estimator's output on  *)
(* the heuristic fallback path only.  On the LLM path it is the confidence *)
(* read from the reply: the reply's own value cut to [0.1, 0.95], 0.5 when *)
(* the JSON has no confidence key, 0.6 for a price read from plain text    *)
(* and 0.3 when the reply could not be parsed.                             *)
(***************************************************************************)
C9_ConfidenceByPath ==
    last.stage = "estimate_price" =>
        LET r == last.reply
            c == last.res.confidence
        IN /\ last.res.path = "fallback" => c = EstimatorValue(last.features)
           /\ last.res.path = "llm" =>
                /\ c \in 10..95
                /\ (r.kind = "json" /\ r.priceSt # "bad" /\ r.confSt = "num") =>
                      c = (IF r.conf < 10 THEN 10 ELSE IF r.conf > 95 THEN 95 ELSE r.conf)
                /\ (r.kind = "json" /\ r.priceSt # "bad" /\ r.confSt = "missing") => c = 50
                /\ (r.kind = "json" /\ (r.priceSt = "bad" \/ r.confSt = "bad")) => c = 30
                /\ (r.kind = "lkrtext" /\ r.priceSt = "num") => c = 60
                /\ ParseFailure(r) => c = 30
           /\ (last.llm = "reply") <=> (last.res.path = "llm")

\* an LLM-path result whose confidence is not the estimator's
C9_Witness ==
    /\ last.stage = "estimate_price"
    /\ last.res.path = "llm"
    /\ last.reply.kind = "json"
    /\ last.res.confidence = 85
    /\ CalculateConfidence(StatusOf(last.features)) = 58

C10_SanitizeIdempotent ==
    san.pc = "twice" => san.twice = san.once

Rank(v) == IF v = "Good Deal" THEN 0 ELSE IF v = "Fair" THEN 1 ELSE 2

(***************************************************************************)
(* C2: for fixed location_score and fixed positive estimated_price, while  *)
(* asking_price is lowered step by step the verdict never moves back       *)
(* towards Overpriced, and it does not reach Good Deal from Overpriced     *)
(* without a Fair verdict in between when a sampled ratio lay in the Fair  *)
(* band.                                                                   *)
(***************************************************************************)
C2_Monotone ==
    [][(sweep.active /\ sweep'.active) =>
          /\ Rank(sweep'.verdict) <= Rank(sweep.verdict)
          /\ (sweep'.verdict = "Good Deal" /\ sweep'.sawOver /\ sweep'.sawFairRatio)
                => sweep'.sawFairVerdict]_vars

\* a sweep that went Overpriced -> Fair -> Good Deal
C2_Witness ==
    /\ sweep.active
    /\ sweep.sawOver
    /\ sweep.sawFairVerdict
    /\ sweep.verdict = "Good Deal"

\* the sanitized text just before the length limit is applied
BeforeLimit(text) ==
    IF text = <<>> THEN <<>>
    ELSE Strip(CollapseWhitespace(RedactPii(RedactToxic(HtmlEscape(text)))))

HasTruncatedMarker(s) ==
    \E i \in 1..Len(s) : i + 10 <= Len(s) /\ SubSeq(s, i, i + 10) = SubSeq(TruncationMarker, 5, 15)

(***************************************************************************)
(* C11: the result of sanitize_input never has more characters than the    *)
(* length limit, and when the sanitized text was longer than the limit the *)
(* result contains the marker "[TRUNCATED]".                               *)
(***************************************************************************)
C11_LengthBound ==
    san.pc = "once" =>
        /\ Len(san.once) <= MaxSanitizedLength
        /\ Len(BeforeLimit(san.text)) > MaxSanitizedLength => HasTruncatedMarker(san.once)

(***************************************************************************)
(* C12: _is_safe_url rejects the empty URL, accepts a URL without "://",   *)
(* and accepts a URL with "://" only if its scheme is http or https and    *)
(* its host is one of the allow-listed domains; a host that merely         *)
(* contains an allow-listed name is rejected.                              *)
(***************************************************************************)
C12_SafeUrlExactHost ==
    last.stage = "_is_safe_url" =>
        /\ last.url = <<>> => ~last.res
        /\ (last.url # <<>> /\ SchemeSeparator(last.url) = 0) => last.res
        /\ (SchemeSeparator(last.url) # 0 /\ last.res) =>
              /\ Len(UrlScheme(last.url)) = 1
              /\ SchemeLower(UrlScheme(last.url)[1]) \in SafeSchemes
              /\ Len(UrlDomain(last.url)) = 1
              /\ UrlDomain(last.url)[1] \in SafeDomains

(***************************************************************************)
(* C13: filter_output preserves provenance: when every provenance entry of *)
(* the payload is a dict, the result has as many entries in the same       *)
(* order, each with the doc_id of the corresponding input entry, whatever  *)
(* the doc_id contains.                                                    *)
(***************************************************************************)
C13_ProvenancePreserved ==
    (/\ last.stage = "filter_output"
     /\ last.payload.hasProvenance
     /\ \A i \in 1..Len(last.payload.provenance) : last.payload.provenance[i].kind = "dict") =>
        /\ Len(last.res.provenance) = Len(last.payload.provenance)
        /\ \A i \in 1..Len(last.payload.provenance) :
              last.res.provenance[i].doc_id = last.payload.provenance[i].doc_id

(***************************************************************************)
(* C14: validate_query_features sanitizes the city instead of rejecting    *)
(* it: a recognized city name followed by markup, with a valid             *)
(* asking_price and nothing else wrong, gives is_valid = true and a        *)
(* sanitized city without a raw "<".                                       *)
(***************************************************************************)
C14_CityWithMarkupAccepted ==
    (/\ last.stage = "validate_query_features"
     /\ last.features.city = <<"C", "o", "l", "o", "m", "b", "o", "<", "b", ">">>
     /\ last.features.asking_price = "ok"
     /\ \A i \in 1..6 : last.features[NumericFields[i]] \in {"absent", "ok"}) =>
        /\ last.res.is_valid
        /\ "city" \in last.res.keys
        /\ \A i \in 1..Len(last.res.city) : last.res.city[i] # "<"

(***************************************************************************)
(* C15: analyze_property rejects a request whose user has used up the plan *)
(* limit (402) or whose features fail validation (400) before any pipeline *)
(* stage is called; a rejected request stores no Query and no Response and *)
(* leaves analyses_used as it was.  A request that is not rejected is past *)
(* both tests.                                                             *)
(***************************************************************************)
C15_RejectedBeforePipeline ==
    /\ (api.pc = "done" /\ api.status \in {400, 402}) =>
          /\ api.pipelineRuns = 0
          /\ pipe = IdlePipe
          /\ api.queries = 0
          /\ api.responses = 0
          /\ api.used = api.used0
    /\ api.pc \in {"store_query", "pipeline"} \/ (api.pc = "done" /\ api.status \notin {400, 402}) =>
          /\ api.used0 < PlanLimit(api.plan)
          /\ ValidateQueryFeatures(api.features).is_valid
    /\ (api.pc = "done" /\ api.status = 402) <=>
          (api.pc = "done" /\ api.used0 >= PlanLimit(api.plan))
    /\ (api.pc = "done" /\ api.status = 400) <=>
          (api.pc = "done" /\ api.used0 < PlanLimit(api.plan)
             /\ ~ValidateQueryFeatures(api.features).is_valid)

\* a user at the limit of the free plan was turned away with 402
C15_Witness ==
    /\ api.pc = "done"
    /\ api.status = 402
    /\ api.plan = "free"
    /\ api.used0 = 5
    /\ api.queries = 0

\* a user below the limit sent a city with markup and was turned away with 400
C15_WitnessInvalid ==
    /\ api.pc = "done"
    /\ api.status = 400
    /\ api.used0 < PlanLimit(api.plan)
    /\ api.features.city = <<"C", "o", "l", "o", "m", "b", "o", "<", "b", ">">>
    /\ api.used = api.used0

(***************************************************************************)
(* C16: once the blend step of _run_analysis_pipeline is past, the         *)
(* estimate is conf * h + (1 - conf) * llm (in whole LKR) when the         *)
(* secondary estimator returned an estimated_price > 0, with h the Price   *)
(* Engine's estimate after the tag adjustment and conf its confidence, and *)
(* it is h unchanged when the estimator returned None or a price <= 0; a   *)
(* blended value lies between h and llm.  The result carries that value.   *)
(***************************************************************************)
C16_BlendByOwnConfidence ==
    (pipe.pc \in {"location", "deal", "land", "combine", "done"} /\ ~pipe.raised) =>
        LET h    == pipe.heuristic_price
            llm  == pipe.llm_price
            conf == pipe.confidence
            est  == pipe.estimated_price
        IN /\ (pipe.llm_returned /\ llm > 0) =>
                 /\ est = conf * (h \div 100) + (100 - conf) * (llm \div 100)
                            + (conf * (h % 100) + (100 - conf) * (llm % 100)) \div 100
                 /\ Min(h, llm) <= est
                 /\ est <= Max(h, llm)
           /\ ~(pipe.llm_returned /\ llm > 0) => est = h
           /\ pipe.pc = "done" => pipe.result.estimated_price = est

\* a request whose heuristic estimate was pulled up by a higher secondary estimate
C16_Witness ==
    /\ pipe.pc = "done"
    /\ ~pipe.raised
    /\ pipe.llm_returned
    /\ pipe.llm_price = 90000000
    /\ pipe.confidence = 85
    /\ pipe.tagAdj = 60
    /\ pipe.heuristic_price < pipe.estimated_price
    /\ pipe.estimated_price < pipe.llm_price

\* the position of the first call of a stage in the request's call sequence, 0 if none
FirstCall(name) ==
    LET at == { i \in 1..Len(pipe.calls) : pipe.calls[i] = name }
    IN IF at = {} THEN 0 ELSE CHOOSE i \in at : \A j \in at : i <= j

(***************************************************************************)
(* C17: in every run of _run_analysis_pipeline, when evaluate_deal is      *)
(* called, estimate_price, the secondary estimate with its blend and       *)
(* analyze_location have been called before it; evaluate_deal is given the *)
(* blended estimate and the location score; analyze_land_details is called *)
(* only after the price and location calls, and after evaluate_deal.       *)
(***************************************************************************)
C17_StageOrder ==
    /\ FirstCall("evaluate_deal") # 0 =>
          /\ 0 < FirstCall("estimate_price")
          /\ FirstCall("estimate_price") < FirstCall("llm_estimate_market_value")
          /\ FirstCall("llm_estimate_market_value") < FirstCall("analyze_location")
          /\ FirstCall("analyze_location") < FirstCall("evaluate_deal")
    /\ FirstCall("analyze_land_details") # 0 =>
          /\ 0 < FirstCall("estimate_price")
          /\ 0 < FirstCall("analyze_location")
          /\ 0 < FirstCall("evaluate_deal")
          /\ FirstCall("evaluate_deal") < FirstCall("analyze_land_details")
    /\ (pipe.pc \in {"land", "combine", "done"} /\ ~pipe.raised) =>
          /\ pipe.dealArgs[1] = pipe.asking
          /\ pipe.dealArgs[2] =
                IF pipe.llm_returned /\ pipe.llm_price > 0
                THEN BlendPrice(pipe.confidence, pipe.heuristic_price, pipe.llm_price)
                ELSE pipe.heuristic_price
          /\ pipe.dealArgs[3] = pipe.location
          /\ pipe.deal = DealVerdict(pipe.asking, pipe.estimated_price)

\* evaluate_deal was called with a blended estimate that differs from the
\* Price Engine's own
C17_Witness ==
    /\ pipe.pc = "land"
    /\ pipe.calls[Len(pipe.calls)] = "evaluate_deal"
    /\ pipe.llm_returned
    /\ pipe.llm_price > 0
    /\ pipe.dealArgs[2] # pipe.heuristic_price
    /\ pipe.dealArgs[3] = pipe.location
    /\ pipe.location > 0

(***************************************************************************)
(* C18: in one call of get_nearby_amenities a second query is sent exactly *)
(* when the first one succeeded with zero elements, and it has both search *)
(* radii doubled; when the first query returned an element or failed no    *)
(* further query is sent; a call never sends more than two queries; and a  *)
(* failed retry still returns the category lists, all empty, and does not  *)
(* raise.                                                                  *)
(***************************************************************************)
C18_RetryOnceOnEmpty ==
    last.stage = "get_nearby_amenities" =>
        /\ Len(last.queries) \in {1, 2}
        /\ last.queries[1] = FirstRadii
        /\ Len(last.replies) >= 1 =>
              (Len(last.queries) = 2 <=> (last.replies[1].ok /\ last.replies[1].elements = <<>>))
        /\ Len(last.queries) = 2 =>
              /\ last.queries[2].amenity = 2 * last.queries[1].amenity
              /\ last.queries[2].road = 2 * last.queries[1].road
        /\ last.pc = "returned" =>
              /\ ~last.raised
              /\ Len(last.replies) = Len(last.queries)
              /\ FailureCategories \subseteq last.res.keys
              /\ (Len(last.replies) = 2 /\ ~last.replies[2].ok) =>
                    /\ last.res.keys = NearbyCategories
                    /\ last.res.hospitals = 0
                    /\ last.res.roads = 0

\* the first query found nothing, the retry failed, and the call returned empty lists
C18_Witness ==
    /\ last.stage = "get_nearby_amenities"
    /\ last.pc = "returned"
    /\ Len(last.queries) = 2
    /\ last.queries[2] = [amenity |-> 3000, road |-> 4000]
    /\ ~last.replies[2].ok
    /\ last.res.keys = NearbyCategories

(***************************************************************************)
(* C19: every result of llm_analyze_location_risk, with the LLM absent,    *)
(* raising, answering text that is not JSON or answering any JSON object,  *)
(* has a level among Low, Medium and High, a non-empty factors list, and   *)
(* every factor severity in 1..5.                                          *)
(***************************************************************************)
C19_RiskShape ==
    last.stage = "llm_analyze_location_risk" =>
        /\ last.res.level \in {"Low", "Medium", "High"}
        /\ last.res.factors # <<>>
        /\ \A i \in 1..Len(last.res.factors) : last.res.factors[i] \in 1..5

(***************************************************************************)
(* C20: the score returned by analyze_location lies in [0, 1] for every    *)
(* lat, lon, city and district and every jitter in [-0.05, 0.05]; the      *)
(* score of its error result does too.                                     *)
(***************************************************************************)
C20_LocationScoreBound ==
    last.stage = "analyze_location" =>
        /\ last.res.score >= 0
        /\ last.res.score <= 100
        /\ last.res.error => last.res.score = 50

\* Colombo 1 at the Colombo coordinates with the largest jitter: 0.98 + 0.05 + 0.05
\* is cut to 1.0
C20_Witness ==
    /\ last.stage = "analyze_location"
    /\ last.coord = 1
    /\ last.district = "Colombo 1"
    /\ last.jitter = 5
    /\ ~last.res.error
    /\ last.res.score = 100

\* C21: for every lat, lon, city and district, the bullets list returned by
\* analyze_location has at most 10 entries.
\* Violated: city "Colombo" with district "Colombo 1" and coordinates gives
\* 8 + 4 + 1 = 13 bullets.
C21_BulletsAtMostTen ==
    last.stage = "analyze_location" => last.res.bullets <= 10

\* C22: for any interleaving of analyze_property requests of the same user,
\* every completed analysis raises analyses_used by exactly one (no update is
\* lost), so the number of analyses completed under one subscription never
\* exceeds the plan's limit.
\* Violated: two requests that both load the user before either saves both
\* write used + 1 from the same used.
C22_NoLostUpdate ==
    /\ store.user.analyses_used = store.completed
    /\ store.completed <= PlanLimit(store.user.plan)

\* C23: after any sequence of upgrade_plan, create_checkout_session,
\* verify_session and analysis requests, a user whose current plan is paid is
\* given a new paid subscription (reset_subscription) only when analyses_used
\* has reached the limit of the current plan.
\* Violated: verify_session resets the subscription without asking
\* can_purchase_plan.
C23_PaidResetOnlyWhenExhausted ==
    (store.op.reset /\ store.op.user.plan \in PaidPlans) => IsLimitExhausted(store.op.user)

\* C27: after any sequence of verify_session calls with the same paid
\* session_id, the subscription is reset by the first call only; a call that
\* finds the Payment record of the session already "completed" leaves
\* analyses_used unchanged.
\* Violated: every call for a paid session runs reset_subscription.
C27_PaidSessionGrantsOnce ==
    (store.op.name = "verify_session" /\ store.op.record = "completed")
        => store.user.analyses_used = store.op.user.analyses_used

\* C24: two calls of _get_comparable_properties with the same (lat, lon,
\* distance_km), made at any points of a run and with any other uses of the
\* random generator in between, return the same list of comparables.
C24_DeterministicComps ==
    last.stage = "_get_comparable_properties"
        => last.res = rng.first[<<last.coord, last.distance_km>>]

\* a repeated call, made after other draws from the generator
C24_Witness ==
    /\ last.stage = "_get_comparable_properties"
    /\ last.repeat
    /\ last.before.drawn > 0

\* the estimate of the same call for the same features at another row of Coordinates
PriceAt(coord) ==
    EstimatePrice([last.features EXCEPT !.coord = coord], last.llm, last.reply).estimated_price

HeuristicCallWithCoordinates ==
    /\ last.stage = "estimate_price"
    /\ last.res.path = "fallback"
    /\ HasCoordinates(last.features)

C26_EmptyFeaturesGiveError ==
    (last.stage = "estimate_price" /\ last.features.has = {})
        => (last.res.error /\ last.res.estimated_price = 0 /\ last.res.confidence = 10)

\* C28: after any set of submit_feedback requests, also when two requests of
\* the same user for the same response interleave at their await points, the
\* store holds at most one Feedback record for the (user_id, response_id)
\* pair, and its is_positive is the value of the request that completed last.
\* Violated: two requests that both look before either inserts both insert.
C28_FeedbackUnique ==
    /\ Len(fb.records) <= 1
    /\ fb.last # <<>> => fb.records = fb.last

\* C29: for every call of get_nearby_amenities, the returned mapping has the
\* same set of category keys whether the map-data request succeeded or raised,
\* and on failure every category list is empty.
\* Violated: the dict of the except clause has no 'religious_places' key.
C29_SameKeysOnFailure ==
    (last.stage = "get_nearby_amenities" /\ last.pc = "returned")
        => /\ last.res.keys = NearbyCategories
           /\ last.res.failed => (last.res.hospitals = 0 /\ last.res.roads = 0)

\* C30: after any sequence of publish calls (including ones whose handlers
\* raise), every published message appears in the history exactly once and in
\* publish order, and history(limit) returns the most recent messages and
\* never more than limit of them, for every limit >= 0 and in particular
\* limit = 0.
\* Violated: history(0) returns the whole history.
C30_HistoryWindow ==
    /\ Len(bus.history) = bus.published
    /\ \A i \in 1..Len(bus.history) : bus.history[i].id = i
    /\ bus.view # NoView =>
          LET n == Len(bus.view.of)
              k == Min(bus.view.limit, n)
          IN /\ Len(bus.view.res) <= bus.view.limit
             /\ bus.view.res = SubSeq(bus.view.of, n - k + 1, n)

====
